---------------------------- MODULE Spec2Model ----------------------------
(***************************************************************************)
(* A model of the adapter package of toolfoundation: the canonical schema, *)
(* the five built-in adapters' projections, the adapter registry with its  *)
(* reader-writer lock, and the conversion engine with its feature-loss     *)
(* walk.                                                                   *)
(*                                                                         *)
(* Conventions for Go values:                                              *)
(*   - a pointer or an `any` that may be nil is a sequence of length 0 or  *)
(*     1: <<>> is nil, <<v>> is a present value v;                         *)
(*   - a Go string is a TLA+ string, "" being the zero value;              *)
(*   - a map[string]T is a function from its keys; the nil and the empty   *)
(*     map are both the function with the empty domain, <<>>;              *)
(*   - a slice is a sequence; the nil and the empty slice are both <<>>    *)
(*     (the code only ever takes len() of them or ranges over them);       *)
(*   - a value held in an `any` carries its dynamic type, [t |-> type,     *)
(*     v |-> value];                                                       *)
(*   - a float64 is held as an integer count of halves, so that 3 is 1.5.  *)
(***************************************************************************)
EXTENDS Integers, Sequences, FiniteSets, Bags, TLC

(***************************************************************************)
(* Bounds of the model.                                                    *)
(***************************************************************************)
\* nesting depth of the schemas drawn in InitConvert
MaxDepth == 2
\* registry operations each goroutine starts in Spec
MaxOps == 2

(***************************************************************************)
(* adapter.go: the feature catalog.                                        *)
(***************************************************************************)
AllFeatures ==
  << "$ref", "$defs", "anyOf", "oneOf", "allOf", "not", "pattern", "format",
     "additionalProperties", "minimum", "maximum", "minLength", "maxLength",
     "enum", "const", "default", "title", "examples", "multipleOf",
     "minItems", "maxItems", "minProperties", "maxProperties", "uniqueItems",
     "nullable", "deprecated", "readOnly", "writeOnly" >>

SchemaFeature == {AllFeatures[i] : i \in 1..Len(AllFeatures)}

(***************************************************************************)
(* Values of type `any`.                                                   *)
(***************************************************************************)
StringV(s)   == [t |-> "string", v |-> s]
Float64V(x)  == [t |-> "float64", v |-> x]
IntV(i)      == [t |-> "int", v |-> i]
BoolV(b)     == [t |-> "bool", v |-> b]
MapV(m)      == [t |-> "map[string]any", v |-> m]
SliceAnyV(s) == [t |-> "[]any", v |-> s]
SliceStrV(s) == [t |-> "[]string", v |-> s]

(***************************************************************************)
(* canonical.go: the zero value of JSONSchema, &JSONSchema{}.              *)
(***************************************************************************)
JSONSchema ==
  [ Type |-> "", Title |-> "", Properties |-> <<>>, Required |-> <<>>,
    Items |-> <<>>, Description |-> "", Enum |-> <<>>, Const |-> <<>>,
    Default |-> <<>>, Examples |-> <<>>, MultipleOf |-> <<>>,
    Minimum |-> <<>>, Maximum |-> <<>>, MinLength |-> <<>>,
    MaxLength |-> <<>>, MinItems |-> <<>>, MaxItems |-> <<>>,
    MinProperties |-> <<>>, MaxProperties |-> <<>>, UniqueItems |-> <<>>,
    Pattern |-> "", Format |-> "", Ref |-> "", Defs |-> <<>>,
    AdditionalProperties |-> <<>>, Nullable |-> <<>>, Deprecated |-> <<>>,
    ReadOnly |-> <<>>, WriteOnly |-> <<>>, AnyOf |-> <<>>, OneOf |-> <<>>,
    AllOf |-> <<>>, Not |-> <<>> ]

\* the entry as it would be if the key were written without the test
EntryAlways(cond, k, v) == k :> v

\* one entry of a map[string]any under construction: m[k] = v when cond
Entry(cond, k, v) == IF cond THEN k :> v ELSE <<>>

(***************************************************************************)
(* JSONSchema.ToMap: a key is written for each non-zero field.             *)
(***************************************************************************)
RECURSIVE ToMap(_)
ToMap(s) ==
     Entry(s.Type # "", "type", StringV(s.Type))
  @@ Entry(s.Title # "", "title", StringV(s.Title))
  @@ Entry(s.Description # "", "description", StringV(s.Description))
  @@ Entry(s.Pattern # "", "pattern", StringV(s.Pattern))
  @@ Entry(s.Format # "", "format", StringV(s.Format))
  @@ Entry(s.Ref # "", "$ref", StringV(s.Ref))
  @@ (IF s.Const # <<>> THEN "const" :> s.Const[1] ELSE <<>>)
  @@ (IF s.Default # <<>> THEN "default" :> s.Default[1] ELSE <<>>)
  @@ Entry(Len(s.Examples) > 0, "examples", SliceAnyV(s.Examples))
  @@ (IF s.MultipleOf # <<>> THEN "multipleOf" :> Float64V(s.MultipleOf[1]) ELSE <<>>)
  @@ (IF s.Minimum # <<>> THEN "minimum" :> Float64V(s.Minimum[1]) ELSE <<>>)
  @@ (IF s.Maximum # <<>> THEN "maximum" :> Float64V(s.Maximum[1]) ELSE <<>>)
  @@ (IF s.MinLength # <<>> THEN "minLength" :> IntV(s.MinLength[1]) ELSE <<>>)
  @@ (IF s.MaxLength # <<>> THEN "maxLength" :> IntV(s.MaxLength[1]) ELSE <<>>)
  @@ (IF s.MinItems # <<>> THEN "minItems" :> IntV(s.MinItems[1]) ELSE <<>>)
  @@ (IF s.MaxItems # <<>> THEN "maxItems" :> IntV(s.MaxItems[1]) ELSE <<>>)
  @@ (IF s.MinProperties # <<>> THEN "minProperties" :> IntV(s.MinProperties[1]) ELSE <<>>)
  @@ (IF s.MaxProperties # <<>> THEN "maxProperties" :> IntV(s.MaxProperties[1]) ELSE <<>>)
  @@ (IF s.UniqueItems # <<>> THEN "uniqueItems" :> BoolV(s.UniqueItems[1]) ELSE <<>>)
  @@ (IF s.AdditionalProperties # <<>>
        THEN "additionalProperties" :> BoolV(s.AdditionalProperties[1]) ELSE <<>>)
  @@ (IF s.Nullable # <<>> THEN "nullable" :> BoolV(s.Nullable[1]) ELSE <<>>)
  @@ (IF s.Deprecated # <<>> THEN "deprecated" :> BoolV(s.Deprecated[1]) ELSE <<>>)
  @@ (IF s.ReadOnly # <<>> THEN "readOnly" :> BoolV(s.ReadOnly[1]) ELSE <<>>)
  @@ (IF s.WriteOnly # <<>> THEN "writeOnly" :> BoolV(s.WriteOnly[1]) ELSE <<>>)
  @@ Entry(Len(s.Required) > 0, "required", SliceStrV(s.Required))
  @@ Entry(Len(s.Enum) > 0, "enum", SliceAnyV(s.Enum))
  @@ (IF DOMAIN s.Properties # {}
        THEN "properties" :>
               MapV([k \in DOMAIN s.Properties |-> MapV(ToMap(s.Properties[k]))])
        ELSE <<>>)
  @@ (IF DOMAIN s.Defs # {}
        THEN "$defs" :> MapV([k \in DOMAIN s.Defs |-> MapV(ToMap(s.Defs[k]))])
        ELSE <<>>)
  @@ (IF s.Items # <<>> THEN "items" :> MapV(ToMap(s.Items[1])) ELSE <<>>)
  @@ (IF Len(s.AnyOf) > 0
        THEN "anyOf" :> SliceAnyV([i \in 1..Len(s.AnyOf) |-> MapV(ToMap(s.AnyOf[i]))])
        ELSE <<>>)
  @@ (IF Len(s.OneOf) > 0
        THEN "oneOf" :> SliceAnyV([i \in 1..Len(s.OneOf) |-> MapV(ToMap(s.OneOf[i]))])
        ELSE <<>>)
  @@ (IF Len(s.AllOf) > 0
        THEN "allOf" :> SliceAnyV([i \in 1..Len(s.AllOf) |-> MapV(ToMap(s.AllOf[i]))])
        ELSE <<>>)
  @@ (IF s.Not # <<>> THEN "not" :> MapV(ToMap(s.Not[1])) ELSE <<>>)


(***************************************************************************)
(* The per-adapter feature tables and SupportsFeature.                     *)
(***************************************************************************)
openAIFeatures ==
  [f \in SchemaFeature |->
     f \in {"enum", "default", "additionalProperties", "minimum", "maximum",
            "minLength", "maxLength", "multipleOf", "minItems", "maxItems",
            "minProperties", "maxProperties", "uniqueItems", "const"}]

anthropicFeatures ==
  [f \in SchemaFeature |->
     f \in {"enum", "default", "additionalProperties", "minimum", "maximum",
            "minLength", "maxLength", "multipleOf", "minItems", "maxItems",
            "minProperties", "maxProperties", "uniqueItems", "const", "anyOf"}]

geminiFeatures ==
  [f \in SchemaFeature |->
     f \in {"$ref", "$defs", "anyOf", "pattern", "format",
            "additionalProperties", "minimum", "maximum", "minLength",
            "maxLength", "minItems", "maxItems", "minProperties",
            "maxProperties", "enum", "default", "title", "nullable"}]

\* supported, ok := table[feature]; return ok && supported
LookupFeature(table, feature) == feature \in DOMAIN table /\ table[feature]

(***************************************************************************)
(* The schema filters of the OpenAI, Anthropic and Gemini projections.     *)
(***************************************************************************)
\* filterOpenAISchema as it would be if it filtered the root only
filterOpenAIRootOnly(schema) ==
  [JSONSchema EXCEPT
     !.Type = schema.Type, !.Description = schema.Description,
     !.Default = schema.Default, !.Const = schema.Const,
     !.MultipleOf = schema.MultipleOf,
     !.Minimum = schema.Minimum, !.Maximum = schema.Maximum,
     !.MinLength = schema.MinLength, !.MaxLength = schema.MaxLength,
     !.MinItems = schema.MinItems, !.MaxItems = schema.MaxItems,
     !.MinProperties = schema.MinProperties,
     !.MaxProperties = schema.MaxProperties,
     !.UniqueItems = schema.UniqueItems,
     !.AdditionalProperties = schema.AdditionalProperties,
     !.Required = schema.Required, !.Enum = schema.Enum,
     !.Properties = schema.Properties, !.Items = schema.Items]

RECURSIVE filterOpenAISchema(_)
filterOpenAISchema(schema) ==
  [JSONSchema EXCEPT
     !.Type = schema.Type,
     !.Description = schema.Description,
     !.Default = schema.Default,
     !.Const = schema.Const,
     !.MultipleOf = schema.MultipleOf,
     !.Minimum = schema.Minimum,
     !.Maximum = schema.Maximum,
     !.MinLength = schema.MinLength,
     !.MaxLength = schema.MaxLength,
     !.MinItems = schema.MinItems,
     !.MaxItems = schema.MaxItems,
     !.MinProperties = schema.MinProperties,
     !.MaxProperties = schema.MaxProperties,
     !.UniqueItems = schema.UniqueItems,
     !.AdditionalProperties = schema.AdditionalProperties,
     !.Required = schema.Required,
     !.Enum = schema.Enum,
     !.Properties = [k \in DOMAIN schema.Properties |->
                       filterOpenAISchema(schema.Properties[k])],
     !.Items = IF schema.Items # <<>>
                 THEN <<filterOpenAISchema(schema.Items[1])>> ELSE <<>>]

RECURSIVE filterAnthropicSchema(_)
filterAnthropicSchema(schema) ==
  [JSONSchema EXCEPT
     !.Type = schema.Type,
     !.Description = schema.Description,
     !.Default = schema.Default,
     !.Const = schema.Const,
     !.MultipleOf = schema.MultipleOf,
     !.Minimum = schema.Minimum,
     !.Maximum = schema.Maximum,
     !.MinLength = schema.MinLength,
     !.MaxLength = schema.MaxLength,
     !.MinItems = schema.MinItems,
     !.MaxItems = schema.MaxItems,
     !.MinProperties = schema.MinProperties,
     !.MaxProperties = schema.MaxProperties,
     !.UniqueItems = schema.UniqueItems,
     !.AdditionalProperties = schema.AdditionalProperties,
     !.Required = schema.Required,
     !.Enum = schema.Enum,
     !.Properties = [k \in DOMAIN schema.Properties |->
                       filterAnthropicSchema(schema.Properties[k])],
     !.Items = IF schema.Items # <<>>
                 THEN <<filterAnthropicSchema(schema.Items[1])>> ELSE <<>>,
     !.AnyOf = [i \in 1..Len(schema.AnyOf) |->
                  filterAnthropicSchema(schema.AnyOf[i])]]

RECURSIVE filterGeminiSchema(_)
filterGeminiSchema(schema) ==
  [JSONSchema EXCEPT
     !.Type = schema.Type,
     !.Title = schema.Title,
     !.Description = schema.Description,
     !.Default = schema.Default,
     !.Pattern = schema.Pattern,
     !.Format = schema.Format,
     !.Ref = schema.Ref,
     !.Nullable = schema.Nullable,
     !.Minimum = schema.Minimum,
     !.Maximum = schema.Maximum,
     !.MinLength = schema.MinLength,
     !.MaxLength = schema.MaxLength,
     !.MinItems = schema.MinItems,
     !.MaxItems = schema.MaxItems,
     !.MinProperties = schema.MinProperties,
     !.MaxProperties = schema.MaxProperties,
     !.AdditionalProperties = schema.AdditionalProperties,
     !.Required = schema.Required,
     !.Enum = schema.Enum,
     !.Properties = [k \in DOMAIN schema.Properties |->
                       filterGeminiSchema(schema.Properties[k])],
     !.Items = IF schema.Items # <<>>
                 THEN <<filterGeminiSchema(schema.Items[1])>> ELSE <<>>,
     !.AnyOf = [i \in 1..Len(schema.AnyOf) |->
                  filterGeminiSchema(schema.AnyOf[i])],
     !.Defs = [k \in DOMAIN schema.Defs |-> filterGeminiSchema(schema.Defs[k])]]

(***************************************************************************)
(* canonical.go: the zero value of CanonicalTool.                          *)
(***************************************************************************)
CanonicalTool ==
  [ Namespace |-> "", Name |-> "", DisplayName |-> "", Version |-> "",
    Description |-> "", Summary |-> "", Category |-> "", Tags |-> <<>>,
    InputModes |-> <<>>, OutputModes |-> <<>>, Examples |-> <<>>,
    Deterministic |-> <<>>, Idempotent |-> <<>>, Streaming |-> <<>>,
    SecuritySchemes |-> <<>>, SecurityRequirements |-> <<>>,
    Annotations |-> <<>>, UIHints |-> <<>>, InputSchema |-> <<>>,
    OutputSchema |-> <<>>, SourceFormat |-> "", SourceMeta |-> <<>>,
    RequiredScopes |-> <<>> ]

(***************************************************************************)
(* Errors.  errors.New(msg) and fmt.Errorf are errorString values; a       *)
(* *ConversionError carries the adapter, the direction and the cause.      *)
(***************************************************************************)
ErrorString(msg) == [type |-> "errorString", msg |-> msg]

ConversionError(adapter, direction, cause) ==
  [type |-> "*ConversionError", Adapter |-> adapter, Direction |-> direction,
   Cause |-> cause]

(***************************************************************************)
(* Adapters.  The built-in adapters are empty structs; the test suite's    *)
(* mockAdapter carries a name and three optional function fields.  Of a    *)
(* mock's functions the model keeps what they return: toCanonicalFunc and  *)
(* fromCanonicalFunc a fixed (value, error) pair, supportsFunc the set of  *)
(* features it answers true for.  ptr tells two allocations apart.         *)
(***************************************************************************)
NewMCPAdapter       == [impl |-> "MCPAdapter"]
NewOpenAIAdapter    == [impl |-> "OpenAIAdapter"]
NewAnthropicAdapter == [impl |-> "AnthropicAdapter"]
NewA2AAdapter       == [impl |-> "A2AAdapter"]
NewGeminiAdapter    == [impl |-> "GeminiAdapter"]

mockAdapter(ptr, name, toCanonicalFunc, fromCanonicalFunc, supportsFunc) ==
  [impl |-> "mockAdapter", ptr |-> ptr, name |-> name,
   toCanonicalFunc |-> toCanonicalFunc,
   fromCanonicalFunc |-> fromCanonicalFunc, supportsFunc |-> supportsFunc]

Name(a) ==
  CASE a.impl = "MCPAdapter"       -> "mcp"
    [] a.impl = "OpenAIAdapter"    -> "openai"
    [] a.impl = "AnthropicAdapter" -> "anthropic"
    [] a.impl = "A2AAdapter"       -> "a2a"
    [] a.impl = "GeminiAdapter"    -> "gemini"
    [] a.impl = "mockAdapter"      -> a.name

SupportsFeature(a, feature) ==
  CASE a.impl = "MCPAdapter"       -> TRUE
    [] a.impl = "OpenAIAdapter"    -> LookupFeature(openAIFeatures, feature)
    [] a.impl = "AnthropicAdapter" -> LookupFeature(anthropicFeatures, feature)
    [] a.impl = "A2AAdapter"       -> FALSE
    [] a.impl = "GeminiAdapter"    -> LookupFeature(geminiFeatures, feature)
    [] a.impl = "mockAdapter"      ->
         IF a.supportsFunc # <<>> THEN feature \in a.supportsFunc[1] ELSE FALSE

(***************************************************************************)
(* registry.go: the feature-loss walk.                                     *)
(***************************************************************************)
RECURSIVE joinJSONPath(_, _)
joinJSONPath(base, segments) ==
  IF segments = <<>> THEN base
  ELSE IF Head(segments) = "" THEN joinJSONPath(base, Tail(segments))
  ELSE joinJSONPath(base \o "/" \o Head(segments), Tail(segments))

\* fmt.Sprintf("%d", i) for the indices the model reaches
indexPath(i) == <<"0", "1", "2", "3", "4", "5", "6", "7", "8", "9">>[i + 1]

\* featureUsage: whether the node uses the feature
featureUsage(schema, feature) ==
  CASE feature = "$ref"                 -> schema.Ref # ""
    [] feature = "$defs"                -> Cardinality(DOMAIN schema.Defs) > 0
    [] feature = "anyOf"                -> Len(schema.AnyOf) > 0
    [] feature = "oneOf"                -> Len(schema.OneOf) > 0
    [] feature = "allOf"                -> Len(schema.AllOf) > 0
    [] feature = "not"                  -> schema.Not # <<>>
    [] feature = "title"                -> schema.Title # ""
    [] feature = "examples"             -> Len(schema.Examples) > 0
    [] feature = "multipleOf"           -> schema.MultipleOf # <<>>
    [] feature = "pattern"              -> schema.Pattern # ""
    [] feature = "format"               -> schema.Format # ""
    [] feature = "additionalProperties" -> schema.AdditionalProperties # <<>>
    [] feature = "minimum"              -> schema.Minimum # <<>>
    [] feature = "maximum"              -> schema.Maximum # <<>>
    [] feature = "minLength"            -> schema.MinLength # <<>>
    [] feature = "maxLength"            -> schema.MaxLength # <<>>
    [] feature = "minItems"             -> schema.MinItems # <<>>
    [] feature = "maxItems"             -> schema.MaxItems # <<>>
    [] feature = "minProperties"        -> schema.MinProperties # <<>>
    [] feature = "maxProperties"        -> schema.MaxProperties # <<>>
    [] feature = "uniqueItems"          -> schema.UniqueItems # <<>>
    [] feature = "nullable"             -> schema.Nullable # <<>>
    [] feature = "deprecated"           -> schema.Deprecated # <<>>
    [] feature = "readOnly"             -> schema.ReadOnly # <<>>
    [] feature = "writeOnly"            -> schema.WriteOnly # <<>>
    [] feature = "enum"                 -> Len(schema.Enum) > 0
    [] feature = "const"                -> schema.Const # <<>>
    [] feature = "default"              -> schema.Default # <<>>

FeatureLossWarning(feature, path, from, to) ==
  [Feature |-> feature, Path |-> path, FromAdapter |-> from, ToAdapter |-> to]

\* the bag sum of the bags F[x], F a function on a finite set
RECURSIVE SumBags(_)
SumBags(F) ==
  IF DOMAIN F = {} THEN EmptyBag
  ELSE LET x == CHOOSE y \in DOMAIN F : TRUE
       IN  F[x] (+) SumBags([y \in DOMAIN F \ {x} |-> F[y]])

\* The warnings are appended to a slice in the iteration order of Go maps,
\* which is not fixed: the slice is held as a bag, its order left out.
RECURSIVE detectSchemaFeatureLoss(_, _, _, _)
detectSchemaFeatureLoss(schema, source, target, path) ==
  LET here ==
        SetToBag({FeatureLossWarning(f, path, Name(source), Name(target)) :
                    f \in {g \in SchemaFeature :
                             featureUsage(schema, g) /\ ~SupportsFeature(target, g)}})
      props ==
        [name \in DOMAIN schema.Properties |->
           detectSchemaFeatureLoss(schema.Properties[name], source, target,
                                   joinJSONPath(path, <<"properties", name>>))]
      defs ==
        [name \in DOMAIN schema.Defs |->
           detectSchemaFeatureLoss(schema.Defs[name], source, target,
                                   joinJSONPath(path, <<"$defs", name>>))]
      anyOf ==
        [i \in 1..Len(schema.AnyOf) |->
           detectSchemaFeatureLoss(schema.AnyOf[i], source, target,
                                   joinJSONPath(path, <<"anyOf", indexPath(i - 1)>>))]
      oneOf ==
        [i \in 1..Len(schema.OneOf) |->
           detectSchemaFeatureLoss(schema.OneOf[i], source, target,
                                   joinJSONPath(path, <<"oneOf", indexPath(i - 1)>>))]
      allOf ==
        [i \in 1..Len(schema.AllOf) |->
           detectSchemaFeatureLoss(schema.AllOf[i], source, target,
                                   joinJSONPath(path, <<"allOf", indexPath(i - 1)>>))]
  IN  here
      (+) SumBags(props)
      (+) (IF schema.Items # <<>>
             THEN detectSchemaFeatureLoss(schema.Items[1], source, target,
                                          joinJSONPath(path, <<"items">>))
             ELSE EmptyBag)
      (+) SumBags(defs)
      (+) SumBags(anyOf)
      (+) SumBags(oneOf)
      (+) SumBags(allOf)
      (+) (IF schema.Not # <<>>
             THEN detectSchemaFeatureLoss(schema.Not[1], source, target,
                                          joinJSONPath(path, <<"not">>))
             ELSE EmptyBag)

detectFeatureLoss(tool, source, target) ==
      (IF tool.InputSchema # <<>>
         THEN detectSchemaFeatureLoss(tool.InputSchema[1], source, target, "")
         ELSE EmptyBag)
  (+) (IF tool.OutputSchema # <<>>
         THEN detectSchemaFeatureLoss(tool.OutputSchema[1], source, target, "")
         ELSE EmptyBag)

(***************************************************************************)
(* mcp.go: lifting a map-form schema.                                      *)
(***************************************************************************)
\* the nil interface value where it is stored in a map or a slice
NilV == [t |-> "nil"]

\* an `any` read out of a map as a Go interface value: nil or present
AsAny(x) == IF x.t = "nil" THEN <<>> ELSE <<x>>

\* m[k], which is nil when the key is missing
Index(m, k) == IF k \in DOMAIN m THEN m[k] ELSE NilV

IntTypes == {"int", "int32", "int64", "uint", "uint32", "uint64"}
FloatTypes == {"float64", "float32"}

\* a float64 converted to int: truncation toward zero (floats are in halves)
TruncHalves(x) == IF x >= 0 THEN x \div 2 ELSE -((-x) \div 2)

asFloat(x) ==
  IF x.t \in FloatTypes THEN [v |-> x.v, ok |-> TRUE]
  ELSE IF x.t \in IntTypes THEN [v |-> 2 * x.v, ok |-> TRUE]
  ELSE [v |-> 0, ok |-> FALSE]

asInt(x) ==
  IF x.t \in IntTypes THEN [v |-> x.v, ok |-> TRUE]
  ELSE IF x.t \in FloatTypes THEN [v |-> TruncHalves(x.v), ok |-> TRUE]
  ELSE [v |-> 0, ok |-> FALSE]

IsMapV(x) == x.t = "map[string]any"
IsStringV(x) == x.t = "string"

RECURSIVE schemaFromMap(_)
schemaFromMap(m) ==
  LET is(k, t) == Index(m, k).t = t
      str(k) == IF is(k, "string") THEN m[k].v ELSE ""
      float(k) == IF asFloat(Index(m, k)).ok THEN <<asFloat(m[k]).v>> ELSE <<>>
      int(k) == IF asInt(Index(m, k)).ok THEN <<asInt(m[k]).v>> ELSE <<>>
      bool(k) == IF is(k, "bool") THEN <<m[k].v>> ELSE <<>>
      anys(k) ==
        IF is(k, "[]string") THEN [i \in 1..Len(m[k].v) |-> StringV(m[k].v[i])]
        ELSE IF is(k, "[]any") THEN m[k].v
        ELSE <<>>
      required ==
        IF is("required", "[]string") THEN m["required"].v
        ELSE IF is("required", "[]any")
          THEN LET strs == SelectSeq(m["required"].v, IsStringV)
               IN  [i \in 1..Len(strs) |-> strs[i].v]
        ELSE <<>>
      schemas(k) ==
        IF is(k, "map[string]any")
          THEN [n \in {x \in DOMAIN m[k].v : IsMapV(m[k].v[x])} |->
                  schemaFromMap(m[k].v[n].v)]
          ELSE <<>>
      schema(k) ==
        IF is(k, "map[string]any") THEN <<schemaFromMap(m[k].v)>> ELSE <<>>
      list(k) ==
        IF is(k, "[]any")
          THEN LET maps == SelectSeq(m[k].v, IsMapV)
               IN  [i \in 1..Len(maps) |-> schemaFromMap(maps[i].v)]
          ELSE <<>>
  IN  [ Type |-> str("type"), Title |-> str("title"),
        Description |-> str("description"), Pattern |-> str("pattern"),
        Format |-> str("format"), Ref |-> str("$ref"),
        Const |-> AsAny(Index(m, "const")),
        Default |-> AsAny(Index(m, "default")),
        Examples |-> anys("examples"),
        MultipleOf |-> float("multipleOf"), Minimum |-> float("minimum"),
        Maximum |-> float("maximum"), MinLength |-> int("minLength"),
        MaxLength |-> int("maxLength"), MinItems |-> int("minItems"),
        MaxItems |-> int("maxItems"), MinProperties |-> int("minProperties"),
        MaxProperties |-> int("maxProperties"),
        AdditionalProperties |-> bool("additionalProperties"),
        UniqueItems |-> bool("uniqueItems"), Nullable |-> bool("nullable"),
        Deprecated |-> bool("deprecated"), ReadOnly |-> bool("readOnly"),
        WriteOnly |-> bool("writeOnly"), Required |-> required,
        Enum |-> anys("enum"), Properties |-> schemas("properties"),
        Defs |-> schemas("$defs"), Items |-> schema("items"),
        AnyOf |-> list("anyOf"), OneOf |-> list("oneOf"),
        AllOf |-> list("allOf"), Not |-> schema("not") ]

(***************************************************************************)
(* canonical.go: JSONSchema.DeepCopy, field by field.                      *)
(***************************************************************************)
RECURSIVE DeepCopy(_)
DeepCopy(s) ==
  [JSONSchema EXCEPT
     !.Type = s.Type, !.Title = s.Title, !.Description = s.Description,
     !.Const = s.Const, !.Default = s.Default, !.Pattern = s.Pattern,
     !.Format = s.Format, !.Ref = s.Ref,
     !.MultipleOf = s.MultipleOf, !.Minimum = s.Minimum,
     !.Maximum = s.Maximum, !.MinLength = s.MinLength,
     !.MaxLength = s.MaxLength, !.MinItems = s.MinItems,
     !.MaxItems = s.MaxItems, !.MinProperties = s.MinProperties,
     !.MaxProperties = s.MaxProperties, !.UniqueItems = s.UniqueItems,
     !.AdditionalProperties = s.AdditionalProperties,
     !.Nullable = s.Nullable, !.Deprecated = s.Deprecated,
     !.ReadOnly = s.ReadOnly, !.WriteOnly = s.WriteOnly,
     !.Required = s.Required, !.Enum = s.Enum, !.Examples = s.Examples,
     !.Properties = [k \in DOMAIN s.Properties |-> DeepCopy(s.Properties[k])],
     !.Defs = [k \in DOMAIN s.Defs |-> DeepCopy(s.Defs[k])],
     !.Items = IF s.Items # <<>> THEN <<DeepCopy(s.Items[1])>> ELSE <<>>,
     !.AnyOf = [i \in 1..Len(s.AnyOf) |-> DeepCopy(s.AnyOf[i])],
     !.OneOf = [i \in 1..Len(s.OneOf) |-> DeepCopy(s.OneOf[i])],
     !.AllOf = [i \in 1..Len(s.AllOf) |-> DeepCopy(s.AllOf[i])],
     !.Not = IF s.Not # <<>> THEN <<DeepCopy(s.Not[1])>> ELSE <<>>]

\* schemaFromAny: (schema, error); the schema argument is an `any`
schemaFromAny(schema) ==
  IF schema = <<>> THEN [schema |-> <<>>, err |-> <<>>]
  ELSE IF schema[1].t \in {"*JSONSchema", "JSONSchema"}
    THEN [schema |-> <<DeepCopy(schema[1].v)>>, err |-> <<>>]
  ELSE IF schema[1].t = "map[string]any"
    THEN [schema |-> <<schemaFromMap(schema[1].v)>>, err |-> <<>>]
  ELSE [schema |-> <<>>,
        err |-> <<ErrorString("unsupported schema type: " \o schema[1].t)>>]

(***************************************************************************)
(* helpers.go                                                              *)
(***************************************************************************)
canonicalDescription(ct) ==
  IF ct.Description # "" THEN ct.Description
  ELSE IF ct.Summary # "" THEN ct.Summary
  ELSE IF ct.DisplayName # "" THEN ct.DisplayName
  ELSE ""

(***************************************************************************)
(* mcp.go: the MCP adapter.  model.Tool embeds mcp.Tool and adds           *)
(* Namespace, Version and Tags.  The MCP tools of this model carry no      *)
(* securitySchemes and no securityRequirements entry in Meta.              *)
(***************************************************************************)
ModelTool ==
  [ Name |-> "", Title |-> "", Description |-> "", InputSchema |-> <<>>,
    OutputSchema |-> <<>>, Annotations |-> <<>>, Meta |-> <<>>,
    Icons |-> <<>>, Namespace |-> "", Version |-> "", Tags |-> <<>> ]

ToolAnnotations ==
  [ DestructiveHint |-> <<>>, OpenWorldHint |-> <<>>,
    IdempotentHint |-> FALSE, ReadOnlyHint |-> FALSE, Title |-> "" ]

\* the result of ToCanonical and of FromCanonical: (value, error)
Ok(value) == [val |-> <<value>>, err |-> <<>>]
Fail(error) == [val |-> <<>>, err |-> <<error>>]

annotationsToMap(ann) ==
     (IF ann.DestructiveHint # <<>>
        THEN "destructiveHint" :> BoolV(ann.DestructiveHint[1]) ELSE <<>>)
  @@ (IF ann.OpenWorldHint # <<>>
        THEN "openWorldHint" :> BoolV(ann.OpenWorldHint[1]) ELSE <<>>)
  @@ ("idempotentHint" :> BoolV(ann.IdempotentHint))
  @@ ("readOnlyHint" :> BoolV(ann.ReadOnlyHint))
  @@ Entry(ann.Title # "", "title", StringV(ann.Title))

stringSliceFromAny(x) ==
  IF x.t = "[]string" THEN x.v
  ELSE IF x.t = "[]any"
    THEN LET strs == SelectSeq(x.v, IsStringV)
         IN  [i \in 1..Len(strs) |-> strs[i].v]
  ELSE <<>>

MCPToCanonical(raw) ==
  IF raw = <<>>
    THEN Fail(ConversionError("mcp", "to_canonical", ErrorString("input is nil")))
  ELSE IF raw[1].t \notin {"*model.Tool", "model.Tool", "*mcp.Tool", "mcp.Tool"}
    THEN Fail(ConversionError("mcp", "to_canonical",
                              ErrorString("unsupported type: " \o raw[1].t)))
  ELSE
    LET tool == IF raw[1].t \in {"*model.Tool", "model.Tool"} THEN raw[1].v
                ELSE [raw[1].v EXCEPT !.Namespace = "", !.Version = "", !.Tags = <<>>]
        inputSchema == schemaFromAny(tool.InputSchema)
        outputSchema == IF tool.OutputSchema # <<>>
                          THEN schemaFromAny(tool.OutputSchema)
                          ELSE [schema |-> <<>>, err |-> <<>>]
        meta == IF tool.Meta # <<>> THEN tool.Meta[1] ELSE <<>>
        metaStr(k) == IF Index(meta, k).t = "string" THEN meta[k].v ELSE ""
        metaBool(k) == IF Index(meta, k).t = "bool" THEN <<meta[k].v>> ELSE <<>>
        metaStrs(k) == stringSliceFromAny(Index(meta, k))
        displayName ==
          IF tool.Title = "" /\ tool.Annotations # <<>>
               /\ tool.Annotations[1].Title # ""
            THEN tool.Annotations[1].Title ELSE tool.Title
    IN  IF tool.Name = ""
          THEN Fail(ConversionError("mcp", "to_canonical",
                                    ErrorString("tool name is required")))
        ELSE IF inputSchema.err # <<>>
          THEN Fail(ConversionError("mcp", "to_canonical",
                  ErrorString("invalid input schema: " \o inputSchema.err[1].msg)))
        ELSE IF outputSchema.err # <<>>
          THEN Fail(ConversionError("mcp", "to_canonical",
                  ErrorString("invalid output schema: " \o outputSchema.err[1].msg)))
        ELSE Ok([CanonicalTool EXCEPT
               !.Namespace = tool.Namespace,
               !.Name = tool.Name,
               !.DisplayName = displayName,
               !.Version = tool.Version,
               !.Description = tool.Description,
               !.Tags = tool.Tags,
               !.InputSchema = inputSchema.schema,
               !.OutputSchema = outputSchema.schema,
               !.SourceFormat = "mcp",
               !.Annotations = IF tool.Annotations # <<>>
                                 THEN annotationsToMap(tool.Annotations[1]) ELSE <<>>,
               !.Idempotent = IF tool.Annotations # <<>>
                                THEN <<tool.Annotations[1].IdempotentHint>> ELSE <<>>,
               !.Summary = metaStr("summary"),
               !.Category = metaStr("category"),
               !.InputModes = metaStrs("inputModes"),
               !.OutputModes = metaStrs("outputModes"),
               !.Examples = metaStrs("examples"),
               !.Deterministic = metaBool("deterministic"),
               !.Streaming = metaBool("streaming"),
               !.UIHints = IF Index(meta, "uiHints").t = "map[string]any"
                             THEN meta["uiHints"].v ELSE <<>>,
               !.SourceMeta =
                    Entry(tool.Title # "", "title", StringV(tool.Title))
                 @@ (IF tool.Meta # <<>>
                       THEN "meta" :> [t |-> "mcp.Meta", v |-> tool.Meta[1]]
                       ELSE <<>>)
                 @@ (IF tool.Annotations # <<>>
                       THEN "annotations" :>
                              [t |-> "*mcp.ToolAnnotations", v |-> tool.Annotations[1]]
                       ELSE <<>>)
                 @@ Entry(Len(tool.Icons) > 0, "icons",
                          [t |-> "[]mcp.Icon", v |-> tool.Icons])])

cloneAnnotations(src) ==
  [ToolAnnotations EXCEPT
     !.IdempotentHint = src.IdempotentHint, !.ReadOnlyHint = src.ReadOnlyHint,
     !.Title = src.Title, !.DestructiveHint = src.DestructiveHint,
     !.OpenWorldHint = src.OpenWorldHint]

hasMCPAnnotations(ann) ==
  /\ ann # <<>>
  /\ \/ ann[1].DestructiveHint # <<>>
     \/ ann[1].OpenWorldHint # <<>>
     \/ ann[1].Title # ""
     \/ ann[1].IdempotentHint
     \/ ann[1].ReadOnlyHint

\* annotationsFromCanonical(ct, base): (annotations, set); ct is never nil here
annotationsFromCanonical(ct, base) ==
  LET ann0 == IF base # <<>> THEN cloneAnnotations(base[1]) ELSE ToolAnnotations
      a == ct.Annotations
      isBool(k) == Index(a, k).t = "bool"
      ann1 == [ann0 EXCEPT
                 !.DestructiveHint =
                    IF isBool("destructiveHint") THEN <<a["destructiveHint"].v>> ELSE @,
                 !.OpenWorldHint =
                    IF isBool("openWorldHint") THEN <<a["openWorldHint"].v>> ELSE @,
                 !.IdempotentHint =
                    IF ct.Idempotent # <<>> THEN ct.Idempotent[1]
                    ELSE IF isBool("idempotentHint") THEN a["idempotentHint"].v ELSE @,
                 !.ReadOnlyHint =
                    IF isBool("readOnlyHint") THEN a["readOnlyHint"].v ELSE @,
                 !.Title =
                    IF Index(a, "title").t = "string" THEN a["title"].v ELSE @]
      has == \/ hasMCPAnnotations(base)
             \/ isBool("destructiveHint") \/ isBool("openWorldHint")
             \/ isBool("idempotentHint") \/ isBool("readOnlyHint")
             \/ Index(a, "title").t = "string"
             \/ ct.Idempotent # <<>>
  IN  IF has THEN [ann |-> <<ann1>>, set |-> TRUE] ELSE [ann |-> <<>>, set |-> FALSE]

\* the entries that the tool.Meta[k] = v statements of FromCanonical store
metaStores(c) ==
     Entry(c.Summary # "", "summary", StringV(c.Summary))
  @@ Entry(c.Category # "", "category", StringV(c.Category))
  @@ Entry(Len(c.InputModes) > 0, "inputModes", SliceStrV(c.InputModes))
  @@ Entry(Len(c.OutputModes) > 0, "outputModes", SliceStrV(c.OutputModes))
  @@ Entry(Len(c.Examples) > 0, "examples", SliceStrV(c.Examples))
  @@ (IF c.Deterministic # <<>>
        THEN "deterministic" :> BoolV(c.Deterministic[1]) ELSE <<>>)
  @@ (IF c.Streaming # <<>>
        THEN "streaming" :> BoolV(c.Streaming[1]) ELSE <<>>)
  @@ Entry(DOMAIN c.SecuritySchemes # {}, "securitySchemes",
           [t |-> "map[string]SecurityScheme", v |-> c.SecuritySchemes])
  @@ Entry(Len(c.SecurityRequirements) > 0, "securityRequirements",
           [t |-> "[]SecurityRequirement", v |-> c.SecurityRequirements])
  @@ Entry(DOMAIN c.UIHints # {}, "uiHints", MapV(c.UIHints))

MCPFromCanonical(ct) ==
  IF ct = <<>>
    THEN Fail(ConversionError("mcp", "from_canonical",
                              ErrorString("canonical tool is nil")))
  ELSE IF ct[1].Name = ""
    THEN Fail(ConversionError("mcp", "from_canonical",
                              ErrorString("tool name is required")))
  ELSE
    LET c == ct[1]
        sm == c.SourceMeta
        title0 == IF Index(sm, "title").t = "string" THEN sm["title"].v ELSE ""
        meta0 == IF Index(sm, "meta").t \in {"mcp.Meta", "map[string]any"}
                   THEN sm["meta"].v ELSE <<>>
        ann0 == IF Index(sm, "annotations").t = "*mcp.ToolAnnotations"
                  THEN <<cloneAnnotations(sm["annotations"].v)>> ELSE <<>>
        icons == IF Index(sm, "icons").t = "[]mcp.Icon" THEN sm["icons"].v ELSE <<>>
        anns == annotationsFromCanonical(c, ann0)
        \* later assignments to tool.Meta[k] overwrite the restored entries
        meta == metaStores(c) @@ meta0
    IN  Ok([t |-> "*model.Tool",
            v |-> [ModelTool EXCEPT
               !.Name = c.Name,
               !.Description = c.Description,
               !.Namespace = c.Namespace,
               !.Version = c.Version,
               !.Tags = c.Tags,
               !.InputSchema = IF c.InputSchema # <<>>
                                 THEN <<MapV(ToMap(c.InputSchema[1]))>> ELSE <<>>,
               !.OutputSchema = IF c.OutputSchema # <<>>
                                  THEN <<MapV(ToMap(c.OutputSchema[1]))>> ELSE <<>>,
               !.Title = IF c.DisplayName # "" THEN c.DisplayName ELSE title0,
               !.Annotations = IF anns.set THEN anns.ann ELSE ann0,
               !.Icons = icons,
               \* the nil Meta and the empty Meta are not told apart
               !.Meta = IF DOMAIN meta # {} THEN <<meta>> ELSE <<>>]])

(***************************************************************************)
(* openai.go, anthropic.go, gemini.go, a2a.go: the other built-in          *)
(* adapters.  A map-typed struct field is <<>> when nil and <<m>> when     *)
(* set, so that schemaFromMap's nil check is made by the caller here.      *)
(***************************************************************************)
OpenAIFunction ==
  [Name |-> "", Description |-> "", Parameters |-> <<>>, Strict |-> <<>>]

OpenAITool == [Type |-> "", Function |-> OpenAIFunction]

OpenAIToCanonical(raw) ==
  IF raw = <<>>
    THEN Fail(ConversionError("openai", "to_canonical", ErrorString("input is nil")))
  ELSE IF raw[1].t \notin {"*OpenAITool", "OpenAITool", "*OpenAIFunction", "OpenAIFunction"}
    THEN Fail(ConversionError("openai", "to_canonical",
                              ErrorString("unsupported type: " \o raw[1].t)))
  ELSE
    LET fn == IF raw[1].t \in {"*OpenAITool", "OpenAITool"}
                THEN raw[1].v.Function ELSE raw[1].v
    IN  IF fn.Name = ""
          THEN Fail(ConversionError("openai", "to_canonical",
                                    ErrorString("function name is required")))
          ELSE Ok([CanonicalTool EXCEPT
                 !.Name = fn.Name,
                 !.Description = fn.Description,
                 !.InputSchema = IF fn.Parameters = <<>> THEN <<>>
                                 ELSE <<schemaFromMap(fn.Parameters[1])>>,
                 !.SourceFormat = "openai",
                 !.SourceMeta = IF fn.Strict # <<>>
                                  THEN "strict" :> BoolV(fn.Strict[1]) ELSE <<>>])

OpenAIFromCanonical(ct) ==
  IF ct = <<>>
    THEN Fail(ConversionError("openai", "from_canonical",
                              ErrorString("canonical tool is nil")))
  ELSE IF ct[1].Name = ""
    THEN Fail(ConversionError("openai", "from_canonical",
                              ErrorString("tool name is required")))
  ELSE
    LET c == ct[1]
    IN  Ok([t |-> "*OpenAITool",
            v |-> [Type |-> "function",
                   Function |->
                     [Name |-> c.Name,
                      Description |-> canonicalDescription(c),
                      Parameters |->
                        IF c.InputSchema # <<>>
                          THEN <<ToMap(filterOpenAISchema(c.InputSchema[1]))>>
                          ELSE <<"type" :> StringV("object")>>,
                      Strict |-> IF Index(c.SourceMeta, "strict").t = "bool"
                                   THEN <<c.SourceMeta["strict"].v>> ELSE <<>>]]])

AnthropicTool ==
  [Name |-> "", Description |-> "", InputSchema |-> <<>>,
   CacheControl |-> <<>>, InputExamples |-> <<>>]

\* json.Marshal of an input example; the examples of this model are
\* strings free of characters that need escaping, and booleans
jsonMarshal(x) ==
  IF x.t = "string" THEN "\"" \o x.v \o "\""
  ELSE IF x.t = "bool" THEN (IF x.v THEN "true" ELSE "false")
  ELSE "null"

AnthropicToCanonical(raw) ==
  IF raw = <<>>
    THEN Fail(ConversionError("anthropic", "to_canonical", ErrorString("input is nil")))
  ELSE IF raw[1].t \notin {"*AnthropicTool", "AnthropicTool"}
    THEN Fail(ConversionError("anthropic", "to_canonical",
                              ErrorString("unsupported type: " \o raw[1].t)))
  ELSE
    LET tool == raw[1].v
    IN  IF tool.Name = ""
          THEN Fail(ConversionError("anthropic", "to_canonical",
                                    ErrorString("tool name is required")))
          ELSE Ok([CanonicalTool EXCEPT
                 !.Name = tool.Name,
                 !.Description = tool.Description,
                 !.InputSchema = IF tool.InputSchema = <<>> THEN <<>>
                                 ELSE <<schemaFromMap(tool.InputSchema[1])>>,
                 !.SourceFormat = "anthropic",
                 !.Examples = [i \in 1..Len(tool.InputExamples) |->
                                 jsonMarshal(tool.InputExamples[i])],
                 !.SourceMeta =
                      (IF tool.CacheControl # <<>>
                         THEN "cache_control" :>
                                [t |-> "*AnthropicCacheControl", v |-> tool.CacheControl[1]]
                         ELSE <<>>)
                   @@ Entry(Len(tool.InputExamples) > 0, "input_examples",
                            SliceAnyV(tool.InputExamples))])

AnthropicFromCanonical(ct) ==
  IF ct = <<>>
    THEN Fail(ConversionError("anthropic", "from_canonical",
                              ErrorString("canonical tool is nil")))
  ELSE IF ct[1].Name = ""
    THEN Fail(ConversionError("anthropic", "from_canonical",
                              ErrorString("tool name is required")))
  ELSE
    LET c == ct[1]
        ex == Index(c.SourceMeta, "input_examples")
    IN  Ok([t |-> "*AnthropicTool",
            v |-> [Name |-> c.Name,
                   Description |-> canonicalDescription(c),
                   InputSchema |->
                     IF c.InputSchema # <<>>
                       THEN <<ToMap(filterAnthropicSchema(c.InputSchema[1]))>>
                       ELSE <<"type" :> StringV("object")>>,
                   CacheControl |->
                     IF Index(c.SourceMeta, "cache_control").t = "*AnthropicCacheControl"
                       THEN <<c.SourceMeta["cache_control"].v>> ELSE <<>>,
                   InputExamples |->
                     IF ex.t = "[]any" THEN ex.v
                     ELSE IF ex.t = "[]map[string]any"
                       THEN [i \in 1..Len(ex.v) |-> MapV(ex.v[i])]
                     ELSE <<>>]])

GeminiFunctionDeclaration == [Name |-> "", Description |-> "", Parameters |-> <<>>]

\* ToCanonical as it would be if it took the first declaration of a wrapper
\* that holds several
GeminiToCanonicalFirst(raw) ==
  IF raw = <<>>
    THEN Fail(ConversionError("gemini", "to_canonical", ErrorString("input is nil")))
  ELSE IF raw[1].t \in {"*GeminiTool", "GeminiTool"}
            /\ Len(raw[1].v.FunctionDeclarations) = 0
    THEN Fail(ConversionError("gemini", "to_canonical",
           ErrorString("gemini tool must contain exactly one function declaration")))
  ELSE IF raw[1].t \notin {"*GeminiFunctionDeclaration", "GeminiFunctionDeclaration",
                          "*GeminiTool", "GeminiTool"}
    THEN Fail(ConversionError("gemini", "to_canonical",
                              ErrorString("unsupported type: " \o raw[1].t)))
  ELSE
    LET fn == IF raw[1].t \in {"*GeminiTool", "GeminiTool"}
                THEN raw[1].v.FunctionDeclarations[1] ELSE raw[1].v
    IN  IF fn.Name = ""
          THEN Fail(ConversionError("gemini", "to_canonical",
                                    ErrorString("function name is required")))
          ELSE Ok([CanonicalTool EXCEPT
                 !.Name = fn.Name,
                 !.Description = fn.Description,
                 !.InputSchema =
                    IF fn.Parameters = <<>>
                      THEN <<[JSONSchema EXCEPT !.Type = "object"]>>
                      ELSE <<schemaFromMap(fn.Parameters[1])>>,
                 !.SourceFormat = "gemini"])

GeminiToCanonical(raw) ==
  IF raw = <<>>
    THEN Fail(ConversionError("gemini", "to_canonical", ErrorString("input is nil")))
  ELSE IF raw[1].t \in {"*GeminiTool", "GeminiTool"}
            /\ Len(raw[1].v.FunctionDeclarations) # 1
    THEN Fail(ConversionError("gemini", "to_canonical",
           ErrorString("gemini tool must contain exactly one function declaration")))
  ELSE IF raw[1].t \notin {"*GeminiFunctionDeclaration", "GeminiFunctionDeclaration",
                          "*GeminiTool", "GeminiTool"}
    THEN Fail(ConversionError("gemini", "to_canonical",
                              ErrorString("unsupported type: " \o raw[1].t)))
  ELSE
    LET fn == IF raw[1].t \in {"*GeminiTool", "GeminiTool"}
                THEN raw[1].v.FunctionDeclarations[1] ELSE raw[1].v
    IN  IF fn.Name = ""
          THEN Fail(ConversionError("gemini", "to_canonical",
                                    ErrorString("function name is required")))
          ELSE Ok([CanonicalTool EXCEPT
                 !.Name = fn.Name,
                 !.Description = fn.Description,
                 !.InputSchema =
                    IF fn.Parameters = <<>>
                      THEN <<[JSONSchema EXCEPT !.Type = "object"]>>
                      ELSE <<schemaFromMap(fn.Parameters[1])>>,
                 !.SourceFormat = "gemini"])

GeminiFromCanonical(ct) ==
  IF ct = <<>>
    THEN Fail(ConversionError("gemini", "from_canonical",
                              ErrorString("canonical tool is nil")))
  ELSE IF ct[1].Name = ""
    THEN Fail(ConversionError("gemini", "from_canonical",
                              ErrorString("tool name is required")))
  ELSE
    LET c == ct[1]
    IN  Ok([t |-> "*GeminiTool",
            v |-> [FunctionDeclarations |->
                     << [Name |-> c.Name,
                         Description |-> c.Description,
                         Parameters |->
                           IF c.InputSchema # <<>>
                             THEN <<ToMap(filterGeminiSchema(c.InputSchema[1]))>>
                             ELSE <<"type" :> StringV("object")>>] >>]])

A2AAgentSkill ==
  [ID |-> "", Name |-> "", Description |-> "", Tags |-> <<>>, Examples |-> <<>>,
   InputModes |-> <<>>, OutputModes |-> <<>>, SecurityRequirements |-> <<>>]

\* strings.Join(parts, sep)
RECURSIVE Join(_, _)
Join(parts, sep) ==
  IF Len(parts) = 0 THEN ""
  ELSE IF Len(parts) = 1 THEN parts[1]
  ELSE parts[1] \o sep \o Join(Tail(parts), sep)

\* the colon-free strings that the identifiers of this model are made of
ColonFree == {"", "ns", "t", "v1"}

\* strings.Split(id, ":"): the colon-free parts that join back to id
Split(id) ==
  CHOOSE parts \in UNION {[1..n -> ColonFree] : n \in 1..4} : Join(parts, ":") = id

\* parseA2ASkillID: <<namespace, name, version>>
parseA2ASkillID(id) ==
  LET parts == Split(id)
  IN  IF Len(parts) = 2 /\ parts[1] # "" /\ parts[2] # ""
        THEN <<parts[1], parts[2], "">>
      ELSE IF Len(parts) = 3 /\ parts[1] # "" /\ parts[2] # "" /\ parts[3] # ""
        THEN <<parts[1], parts[2], parts[3]>>
      ELSE <<"", id, "">>

\* canonicalFromA2ASkill: the skill pointer is never nil where it is called
canonicalFromA2ASkill(skill) ==
  IF skill.ID = "" THEN Fail(ErrorString("agent skill id is required"))
  ELSE
    LET parsed == parseA2ASkillID(skill.ID)
        name == IF parsed[2] = "" THEN skill.ID ELSE parsed[2]
    IN  Ok([CanonicalTool EXCEPT
           !.Namespace = parsed[1],
           !.Name = name,
           !.Version = parsed[3],
           !.DisplayName = IF skill.Name = "" THEN name ELSE skill.Name,
           !.Description = skill.Description,
           !.Tags = skill.Tags,
           !.InputModes = skill.InputModes,
           !.OutputModes = skill.OutputModes,
           !.Examples = skill.Examples,
           !.SecurityRequirements = skill.SecurityRequirements,
           !.InputSchema = <<[JSONSchema EXCEPT !.Type = "object"]>>,
           !.SourceFormat = "a2a",
           !.SourceMeta = "skillId" :> StringV(skill.ID)])

skillIDFromCanonical(ct) ==
  IF Index(ct.SourceMeta, "skillId").t = "string" /\ ct.SourceMeta["skillId"].v # ""
    THEN ct.SourceMeta["skillId"].v
  ELSE IF ct.Namespace # "" /\ ct.Version # ""
    THEN Join(<<ct.Namespace, ct.Name, ct.Version>>, ":")
  ELSE IF ct.Namespace # "" THEN Join(<<ct.Namespace, ct.Name>>, ":")
  ELSE ct.Name

a2aSkillFromCanonical(ct) ==
  IF ct.Name = "" THEN Fail(ErrorString("tool name is required"))
  ELSE IF skillIDFromCanonical(ct) = "" THEN Fail(ErrorString("skill id is required"))
  ELSE Ok([t |-> "*A2AAgentSkill",
           v |-> [A2AAgentSkill EXCEPT
              !.ID = skillIDFromCanonical(ct),
              !.Name = IF ct.DisplayName = "" THEN ct.Name ELSE ct.DisplayName,
              !.Description = ct.Description,
              !.Tags = ct.Tags,
              !.Examples = ct.Examples,
              !.InputModes = ct.InputModes,
              !.OutputModes = ct.OutputModes,
              !.SecurityRequirements = ct.SecurityRequirements]])

A2AToCanonical(raw) ==
  IF raw = <<>>
    THEN Fail(ConversionError("a2a", "to_canonical", ErrorString("input is nil")))
  ELSE IF raw[1].t \in {"*A2AAgentSkill", "A2AAgentSkill"}
    THEN canonicalFromA2ASkill(raw[1].v)
  ELSE IF raw[1].t = "*A2AAgentCard"
    THEN Fail(ConversionError("a2a", "to_canonical",
           ErrorString("agent card contains multiple skills; use ToCanonicalProvider")))
  ELSE Fail(ConversionError("a2a", "to_canonical",
                            ErrorString("unsupported type: " \o raw[1].t)))

A2AFromCanonical(ct) ==
  IF ct = <<>>
    THEN Fail(ConversionError("a2a", "from_canonical",
                              ErrorString("canonical tool is nil")))
  ELSE
    LET skill == a2aSkillFromCanonical(ct[1])
    IN  IF skill.err # <<>>
          THEN Fail(ConversionError("a2a", "from_canonical", skill.err[1]))
          ELSE skill

(***************************************************************************)
(* The Adapter interface: a call is dispatched on the dynamic type.        *)
(***************************************************************************)
ToCanonical(a, raw) ==
  CASE a.impl = "MCPAdapter"       -> MCPToCanonical(raw)
    [] a.impl = "OpenAIAdapter"    -> OpenAIToCanonical(raw)
    [] a.impl = "AnthropicAdapter" -> AnthropicToCanonical(raw)
    [] a.impl = "A2AAdapter"       -> A2AToCanonical(raw)
    [] a.impl = "GeminiAdapter"    -> GeminiToCanonical(raw)
    [] a.impl = "mockAdapter"      ->
         IF a.toCanonicalFunc # <<>> THEN a.toCanonicalFunc[1]
         ELSE [val |-> <<>>, err |-> <<>>]

\* FromCanonical as it would be if it refused a tool that uses a feature
\* the adapter does not support
FromCanonicalStrict(a, ct) ==
  IF ct # <<>> /\ detectFeatureLoss(ct[1], a, a) # EmptyBag
    THEN Fail(ConversionError(Name(a), "from_canonical",
                              ErrorString("unsupported schema feature")))
  ELSE CASE a.impl = "MCPAdapter"       -> MCPFromCanonical(ct)
         [] a.impl = "OpenAIAdapter"    -> OpenAIFromCanonical(ct)
         [] a.impl = "AnthropicAdapter" -> AnthropicFromCanonical(ct)
         [] a.impl = "A2AAdapter"       -> A2AFromCanonical(ct)
         [] a.impl = "GeminiAdapter"    -> GeminiFromCanonical(ct)
         [] a.impl = "mockAdapter"      ->
              IF a.fromCanonicalFunc # <<>> THEN a.fromCanonicalFunc[1]
              ELSE [val |-> <<>>, err |-> <<>>]

FromCanonical(a, ct) ==
  CASE a.impl = "MCPAdapter"       -> MCPFromCanonical(ct)
    [] a.impl = "OpenAIAdapter"    -> OpenAIFromCanonical(ct)
    [] a.impl = "AnthropicAdapter" -> AnthropicFromCanonical(ct)
    [] a.impl = "A2AAdapter"       -> A2AFromCanonical(ct)
    [] a.impl = "GeminiAdapter"    -> GeminiFromCanonical(ct)
    [] a.impl = "mockAdapter"      ->
         IF a.fromCanonicalFunc # <<>> THEN a.fromCanonicalFunc[1]
         ELSE [val |-> <<>>, err |-> <<>>]

(***************************************************************************)
(* registry.go: what each operation does to the adapters map inside its    *)
(* critical section.  The map is a function from names to adapters.        *)
(***************************************************************************)
NewRegistry == <<>>

\* Register as it would be if it replaced the adapter of a registered name
RegisterOverwrites(adapters, adapter) ==
  [adapters |-> (Name(adapter) :> adapter) @@ adapters, err |-> <<>>]

\* Register: (adapters after, error)
Register(adapters, adapter) ==
  IF Name(adapter) \in DOMAIN adapters
    THEN [adapters |-> adapters,
          err |-> <<ErrorString("adapter already registered: " \o Name(adapter))>>]
    ELSE [adapters |-> (Name(adapter) :> adapter) @@ adapters, err |-> <<>>]

\* Get: (adapter, error)
Get(adapters, name) ==
  IF name \in DOMAIN adapters
    THEN Ok(adapters[name])
    ELSE Fail(ErrorString("adapter not found: " \o name))

\* List: the names, in the unspecified order of a map iteration
List(adapters) == DOMAIN adapters

\* Unregister as it would be if it reported success and deleted nothing
UnregisterKeeps(adapters, name) ==
  IF name \notin DOMAIN adapters
    THEN [adapters |-> adapters,
          err |-> <<ErrorString("adapter not found: " \o name)>>]
    ELSE [adapters |-> adapters, err |-> <<>>]

\* Unregister: (adapters after, error)
Unregister(adapters, name) ==
  IF name \notin DOMAIN adapters
    THEN [adapters |-> adapters,
          err |-> <<ErrorString("adapter not found: " \o name)>>]
    ELSE [adapters |-> [n \in DOMAIN adapters \ {name} |-> adapters[n]],
          err |-> <<>>]

\* defaults.go: the five built-in adapters, registered in this order
DefaultRegistry ==
  LET builtins == <<NewMCPAdapter, NewOpenAIAdapter, NewAnthropicAdapter,
                    NewA2AAdapter, NewGeminiAdapter>>
      reg[i \in 0..Len(builtins)] ==
        IF i = 0 THEN NewRegistry ELSE Register(reg[i - 1], builtins[i]).adapters
  IN  reg[Len(builtins)]

\* a call made on an adapter during Convert, kept to tell what Convert did
Called(adapter, method) == [adapter |-> adapter, method |-> method]

\* Convert after its two lookups: the outcome carries, next to the
\* (result, error) pair that Convert returns, the calls it made on the
\* adapters, what they returned and the warnings it had computed.  A nil
\* tool with a nil error from ToCanonical makes detectFeatureLoss
\* dereference nil: the call panics.
convertWith(source, target, tool, fromFormat, toFormat) ==
  LET canonical == ToCanonical(source, tool)
      toCall == Called(source, "ToCanonical")
      none == [result |-> <<>>, err |-> <<>>, panic |-> FALSE, calls |-> <<>>,
               canonical |-> canonical, output |-> [val |-> <<>>, err |-> <<>>],
               computed |-> EmptyBag]
  IN  IF canonical.err # <<>>
        THEN [none EXCEPT
                !.err = <<ConversionError(fromFormat, "to_canonical", canonical.err[1])>>,
                !.calls = <<toCall>>]
      ELSE IF canonical.val = <<>>
        THEN [none EXCEPT !.panic = TRUE, !.calls = <<toCall>>]
      ELSE
        LET warnings == detectFeatureLoss(canonical.val[1], source, target)
            output == FromCanonical(target, canonical.val)
            calls == <<toCall, Called(target, "FromCanonical")>>
        IN  IF output.err # <<>>
              THEN [none EXCEPT
                      !.err = <<ConversionError(toFormat, "from_canonical", output.err[1])>>,
                      !.calls = calls, !.output = output, !.computed = warnings]
              ELSE [none EXCEPT
                      !.result = <<[Tool |-> output.val, Warnings |-> warnings]>>,
                      !.calls = calls, !.output = output, !.computed = warnings]

\* Convert as it would be if it tagged its errors with the names swapped
ConvertMistagged(adapters, tool, fromFormat, toFormat) ==
  LET source == Get(adapters, fromFormat)
      target == Get(adapters, toFormat)
      none == [result |-> <<>>, err |-> <<>>, panic |-> FALSE, calls |-> <<>>,
               canonical |-> [val |-> <<>>, err |-> <<>>],
               output |-> [val |-> <<>>, err |-> <<>>], computed |-> EmptyBag]
  IN  IF source.err # <<>> THEN [none EXCEPT !.err = source.err]
      ELSE IF target.err # <<>> THEN [none EXCEPT !.err = target.err]
      ELSE convertWith(source.val[1], target.val[1], tool, toFormat, fromFormat)

\* Convert as it would be if a failed projection still delivered the
\* warnings computed before it
ConvertLeaky(adapters, tool, fromFormat, toFormat) ==
  LET source == Get(adapters, fromFormat)
      target == Get(adapters, toFormat)
      none == [result |-> <<>>, err |-> <<>>, panic |-> FALSE, calls |-> <<>>,
               canonical |-> [val |-> <<>>, err |-> <<>>],
               output |-> [val |-> <<>>, err |-> <<>>], computed |-> EmptyBag]
      done == convertWith(source.val[1], target.val[1], tool, fromFormat, toFormat)
  IN  IF source.err # <<>> THEN [none EXCEPT !.err = source.err]
      ELSE IF target.err # <<>> THEN [none EXCEPT !.err = target.err]
      ELSE IF done.output.err # <<>>
        THEN [done EXCEPT !.result = <<[Tool |-> <<>>, Warnings |-> done.computed]>>]
      ELSE done

\* Convert as it would be if it lifted the tool before looking up the target
ConvertEager(adapters, tool, fromFormat, toFormat) ==
  LET source == Get(adapters, fromFormat)
      target == Get(adapters, toFormat)
      none == [result |-> <<>>, err |-> <<>>, panic |-> FALSE, calls |-> <<>>,
               canonical |-> [val |-> <<>>, err |-> <<>>],
               output |-> [val |-> <<>>, err |-> <<>>], computed |-> EmptyBag]
  IN  IF source.err # <<>> THEN [none EXCEPT !.err = source.err]
      ELSE IF target.err # <<>>
        THEN [none EXCEPT !.err = target.err,
                          !.canonical = ToCanonical(source.val[1], tool),
                          !.calls = <<Called(source.val[1], "ToCanonical")>>]
      ELSE convertWith(source.val[1], target.val[1], tool, fromFormat, toFormat)

\* Convert on a registry that no other goroutine touches
Convert(adapters, tool, fromFormat, toFormat) ==
  LET source == Get(adapters, fromFormat)
      target == Get(adapters, toFormat)
      none == [result |-> <<>>, err |-> <<>>, panic |-> FALSE, calls |-> <<>>,
               canonical |-> [val |-> <<>>, err |-> <<>>],
               output |-> [val |-> <<>>, err |-> <<>>], computed |-> EmptyBag]
  IN  IF source.err # <<>> THEN [none EXCEPT !.err = source.err]
      ELSE IF target.err # <<>> THEN [none EXCEPT !.err = target.err]
      ELSE convertWith(source.val[1], target.val[1], tool, fromFormat, toFormat)

(***************************************************************************)
(* The state.  A registry shared by goroutines: its map, its RWMutex and,  *)
(* for each goroutine, where it stands in the operation it is running.     *)
(* tool and outcome are the input and the outcome of a Convert call made   *)
(* on a registry that nothing else touches.                                *)
(***************************************************************************)
VARIABLES
  adapters,  \* r.adapters
  writing,   \* a write of r.adapters has begun and has not ended
  mu,        \* r.mu: the writer holding or awaiting it, the readers holding it
  pc,        \* per goroutine: the statement it is at
  call,      \* per goroutine: the operation it runs and its arguments
  local,     \* per goroutine: the locals of the operation
  ret,       \* per goroutine: what its last operation returned
  ops,       \* per goroutine: how many operations it has started
  lastOp,    \* per name: the last registry write that succeeded on it
  seen,      \* per goroutine: the mappings that stood during its call, in order
  tool,      \* the raw tool handed to Convert
  outcome    \* what Convert made of it

vars ==
  <<adapters, writing, mu, pc, call, local, ret, ops, lastOp, seen, tool, outcome>>

(***************************************************************************)
(* The schemas handed to Convert: a chain of nested sub-schemas, at most   *)
(* MaxDepth long, that ends in a node using one scalar keyword or none.    *)
(***************************************************************************)
Plain == [JSONSchema EXCEPT !.Type = "string"]

Structural == {"$defs", "anyOf", "oneOf", "allOf", "not"}

\* a node that uses feature f and nothing else; "" stands for no feature
Leaf(f) ==
  CASE f = ""                     -> Plain
    [] f = "$ref"                 -> [JSONSchema EXCEPT !.Ref = "#/$defs/d"]
    [] f = "pattern"              -> [Plain EXCEPT !.Pattern = "^a"]
    [] f = "format"               -> [Plain EXCEPT !.Format = "email"]
    [] f = "title"                -> [Plain EXCEPT !.Title = "T"]
    [] f = "additionalProperties" -> [JSONSchema EXCEPT !.Type = "object",
                                        !.AdditionalProperties = <<FALSE>>]
    [] f = "minimum"              -> [JSONSchema EXCEPT !.Type = "number", !.Minimum = <<1>>]
    [] f = "maximum"              -> [JSONSchema EXCEPT !.Type = "number", !.Maximum = <<0>>]
    [] f = "multipleOf"           -> [JSONSchema EXCEPT !.Type = "number", !.MultipleOf = <<3>>]
    [] f = "minLength"            -> [Plain EXCEPT !.MinLength = <<0>>]
    [] f = "maxLength"            -> [Plain EXCEPT !.MaxLength = <<2>>]
    [] f = "minItems"             -> [JSONSchema EXCEPT !.Type = "array", !.MinItems = <<0>>]
    [] f = "maxItems"             -> [JSONSchema EXCEPT !.Type = "array", !.MaxItems = <<2>>]
    [] f = "minProperties"        -> [JSONSchema EXCEPT !.Type = "object",
                                        !.MinProperties = <<0>>]
    [] f = "maxProperties"        -> [JSONSchema EXCEPT !.Type = "object",
                                        !.MaxProperties = <<2>>]
    [] f = "uniqueItems"          -> [JSONSchema EXCEPT !.Type = "array",
                                        !.UniqueItems = <<FALSE>>]
    [] f = "enum"                 -> [Plain EXCEPT !.Enum = <<StringV("x")>>]
    [] f = "const"                -> [Plain EXCEPT !.Const = <<StringV("c")>>]
    [] f = "default"              -> [Plain EXCEPT !.Default = <<StringV("")>>]
    [] f = "examples"             -> [Plain EXCEPT !.Examples = <<StringV("e")>>]
    [] f = "nullable"             -> [Plain EXCEPT !.Nullable = <<FALSE>>]
    [] f = "deprecated"           -> [Plain EXCEPT !.Deprecated = <<TRUE>>]
    [] f = "readOnly"             -> [Plain EXCEPT !.ReadOnly = <<FALSE>>]
    [] f = "writeOnly"            -> [Plain EXCEPT !.WriteOnly = <<TRUE>>]

\* the ways a node holds a sub-schema; a property may be named ""
Edges ==
  { <<"properties", "">>, <<"properties", "a">>, <<"$defs", "d">>, <<"items">>,
    <<"anyOf">>, <<"oneOf">>, <<"allOf">>, <<"not">> }

Wrap(edge, child) ==
  CASE edge[1] = "properties" ->
         [JSONSchema EXCEPT !.Type = "object", !.Properties = edge[2] :> child]
    [] edge[1] = "$defs"      -> [JSONSchema EXCEPT !.Type = "object",
                                    !.Defs = edge[2] :> child]
    [] edge[1] = "items"      -> [JSONSchema EXCEPT !.Type = "array", !.Items = <<child>>]
    [] edge[1] = "anyOf"      -> [JSONSchema EXCEPT !.AnyOf = <<Plain, child>>]
    [] edge[1] = "oneOf"      -> [JSONSchema EXCEPT !.OneOf = <<child>>]
    [] edge[1] = "allOf"      -> [JSONSchema EXCEPT !.AllOf = <<child>>]
    [] edge[1] = "not"        -> [JSONSchema EXCEPT !.Not = <<child>>]

RECURSIVE Nest(_, _)
Nest(spine, leaf) ==
  IF spine = <<>> THEN leaf ELSE Wrap(Head(spine), Nest(Tail(spine), leaf))

Spines == UNION {[1..n -> Edges] : n \in 0..MaxDepth}

Schemas == {Nest(spine, Leaf(f)) : spine \in Spines, f \in (SchemaFeature \ Structural) \cup {""}}

(***************************************************************************)
(* Convert alone.  The registry is DefaultRegistry with three mock         *)
(* adapters registered after it: "src" lifts to a canonical tool that      *)
(* holds the drawn schema, "bad" fails to lift, "sink" supports no         *)
(* feature and fails to project.  "nope" is registered by nobody.          *)
(***************************************************************************)
Procs == {"g1", "g2"}
Names == {"a", "b"}

ObjectSchema == [JSONSchema EXCEPT !.Type = "object"]

\* the canonical tool that holds schema as its input schema, as its output
\* schema, or as both
CanonicalWith(name, schema, placement) ==
  [CanonicalTool EXCEPT
     !.Name = name, !.SourceFormat = "src",
     !.InputSchema = IF placement \in {"input", "both"} THEN <<schema>>
                     ELSE <<ObjectSchema>>,
     !.OutputSchema = IF placement = "input" THEN <<>> ELSE <<schema>>]

\* the same tool in the MCP adapter's native form, its schemas as maps
NativeWith(name, schema, placement) ==
  [t |-> "*model.Tool",
   v |-> [ModelTool EXCEPT
            !.Name = name,
            !.InputSchema = IF placement \in {"input", "both"}
                              THEN <<MapV(ToMap(schema))>>
                            ELSE <<MapV(ToMap(ObjectSchema))>>,
            !.OutputSchema = IF placement = "input" THEN <<>>
                             ELSE <<MapV(ToMap(schema))>>]]

ConvertRegistry(canonical) ==
  LET src == mockAdapter("m1", "src", <<Ok(canonical)>>, <<>>, <<>>)
      bad == mockAdapter("m2", "bad", <<Fail(ErrorString("cannot lift"))>>, <<>>, <<>>)
      sink == mockAdapter("m3", "sink", <<>>, <<Fail(ErrorString("cannot project"))>>, <<{}>>)
  IN  Register(Register(Register(DefaultRegistry, src).adapters, bad).adapters,
               sink).adapters

FromNames == {"mcp", "src", "bad", "nope"}
ToNames == {"mcp", "openai", "anthropic", "a2a", "gemini", "src", "sink", "nope"}

\* the goroutines at rest
IdleInit ==
  /\ writing = FALSE
  /\ mu = [w |-> "", held |-> FALSE, readers |-> {}]
  /\ pc = [p \in Procs |-> "idle"]
  /\ call = [p \in Procs |-> <<>>]
  /\ local = [p \in Procs |-> <<>>]
  /\ ret = [p \in Procs |-> <<>>]
  /\ ops = [p \in Procs |-> 0]
  /\ lastOp = [n \in Names |-> "none"]
  /\ seen = [p \in Procs |-> <<>>]

InitConvert ==
  /\ IdleInit
  /\ \E spine \in Spines, f \in (SchemaFeature \ Structural) \cup {""},
        placement \in {"input", "output", "both"}, name \in {"t", ""} :
       /\ name = "" => spine = <<>>
       /\ tool = <<NativeWith(name, Nest(spine, Leaf(f)), placement)>>
       /\ adapters = ConvertRegistry(CanonicalWith(name, Nest(spine, Leaf(f)), placement))
  /\ outcome = <<>>

\* one call r.Convert(tool, fromFormat, toFormat)
DoConvert(fromFormat, toFormat) ==
  /\ outcome = <<>>
  /\ outcome' = <<[fromFormat |-> fromFormat, toFormat |-> toFormat,
                   res |-> Convert(adapters, tool, fromFormat, toFormat)]>>
  /\ UNCHANGED <<adapters, writing, mu, pc, call, local, ret, ops, lastOp, seen, tool>>

NextConvert == \E fromFormat \in FromNames, toFormat \in ToNames : DoConvert(fromFormat, toFormat)

SpecConvert == InitConvert /\ [][NextConvert]_vars

(***************************************************************************)
(* Properties of Convert, read off the outcome of the call.                *)
(***************************************************************************)
BuiltIn == DOMAIN DefaultRegistry

\* the map-form schemas inside a projected tool
ProjectedSchemas(out) ==
  CASE out.t = "*OpenAITool"    -> {out.v.Function.Parameters[1]}
    [] out.t = "*AnthropicTool" -> {out.v.InputSchema[1]}
    [] out.t = "*GeminiTool"    -> {out.v.FunctionDeclarations[1].Parameters[1]}
    [] out.t = "*model.Tool"    ->
         {x[1].v : x \in {out.v.InputSchema, out.v.OutputSchema} \ {<<>>}}
    [] OTHER                    -> {}

\* the keywords a map-form schema uses at any depth; the keys of
\* "properties" and "$defs" are names, not keywords
RECURSIVE KeywordsOf(_)
KeywordsOf(m) ==
  LET named(k) == IF k \in DOMAIN m
                    THEN UNION {KeywordsOf(m[k].v[n].v) : n \in DOMAIN m[k].v}
                    ELSE {}
      single(k) == IF k \in DOMAIN m THEN KeywordsOf(m[k].v) ELSE {}
      listed(k) == IF k \in DOMAIN m
                     THEN UNION {KeywordsOf(m[k].v[i].v) : i \in 1..Len(m[k].v)}
                     ELSE {}
  IN  DOMAIN m \cup named("properties") \cup named("$defs")
        \cup single("items") \cup single("not")
        \cup listed("anyOf") \cup listed("oneOf") \cup listed("allOf")

\* C2: for every built-in adapter and every canonical tool its FromCanonical
\* accepts, no schema of the projected tool holds, at any depth, a keyword of
\* a feature the adapter's SupportsFeature reports as unsupported.
C2_FilteringSound ==
  outcome # <<>> =>
    LET o == outcome[1]
    IN  (o.toFormat \in BuiltIn /\ o.res.output.val # <<>>) =>
          \A m \in ProjectedSchemas(o.res.output.val[1]) :
            \A k \in KeywordsOf(m) \cap SchemaFeature :
              SupportsFeature(adapters[o.toFormat], k)

\* a tool whose unsupported pattern sits two levels deep has been projected
\* to OpenAI and its nested property is still there, without the pattern
C2_Witness ==
  /\ outcome # <<>>
  /\ outcome[1].toFormat = "openai"
  /\ outcome[1].res.output.val # <<>>
  /\ \E w \in BagToSet(outcome[1].res.computed) :
       w.Feature = "pattern" /\ w.Path = "/properties/a/items"
  /\ LET m == outcome[1].res.output.val[1].v.Function.Parameters[1]
     IN  /\ "properties" \in DOMAIN m
         /\ "items" \in DOMAIN m["properties"].v["a"].v

\* the nodes of a schema in the order of the walk, each with its RFC 6901
\* JSON Pointer; no name of this model needs the ~0 or ~1 escape
RECURSIVE Flatten(_)
Flatten(seqs) == IF seqs = <<>> THEN <<>> ELSE Head(seqs) \o Flatten(Tail(seqs))

RECURSIVE SetToSeq(_)
SetToSeq(S) ==
  IF S = {} THEN <<>>
  ELSE LET x == CHOOSE y \in S : TRUE IN <<x>> \o SetToSeq(S \ {x})

RECURSIVE NodesOf(_, _)
NodesOf(schema, p) ==
  LET named(F, kw) ==
        LET ks == SetToSeq(DOMAIN F)
        IN  Flatten([i \in 1..Len(ks) |->
                       NodesOf(F[ks[i]], p \o "/" \o kw \o "/" \o ks[i])])
      single(x, kw) == IF x # <<>> THEN NodesOf(x[1], p \o "/" \o kw) ELSE <<>>
      listed(L, kw) ==
        Flatten([i \in 1..Len(L) |->
                   NodesOf(L[i], p \o "/" \o kw \o "/" \o indexPath(i - 1))])
  IN  <<[path |-> p, node |-> schema]>>
        \o named(schema.Properties, "properties") \o single(schema.Items, "items")
        \o named(schema.Defs, "$defs") \o listed(schema.AnyOf, "anyOf")
        \o listed(schema.OneOf, "oneOf") \o listed(schema.AllOf, "allOf")
        \o single(schema.Not, "not")

\* the nodes of a tool: its input schema, then its output schema
ToolNodes(ct) ==
     (IF ct.InputSchema # <<>> THEN NodesOf(ct.InputSchema[1], "") ELSE <<>>)
  \o (IF ct.OutputSchema # <<>> THEN NodesOf(ct.OutputSchema[1], "") ELSE <<>>)

\* the pointer of the first node of the tool that uses feature f
FirstUse(ct, f) ==
  LET nodes == ToolNodes(ct)
      i == CHOOSE j \in 1..Len(nodes) :
             /\ featureUsage(nodes[j].node, f)
             /\ \A k \in 1..(j - 1) : ~featureUsage(nodes[k].node, f)
  IN  nodes[i].path

Uses(ct, f) == \E j \in 1..Len(ToolNodes(ct)) : featureUsage(ToolNodes(ct)[j].node, f)

\* C3: for every canonical tool, every catalog feature f used at some node
\* of its input or output schema and every target without support for f, the
\* warnings Convert returns include a warning for f whose path is the first
\* node, in the order of the walk, where the tool uses f.
C3_LossComplete ==
  (outcome # <<>> /\ outcome[1].res.result # <<>>) =>
    LET o == outcome[1]
        ct == o.res.canonical.val[1]
    IN  \A f \in SchemaFeature :
          (Uses(ct, f) /\ ~SupportsFeature(adapters[o.toFormat], f)) =>
            \E w \in BagToSet(o.res.result[1].Warnings) :
              w.Feature = f /\ w.Path = FirstUse(ct, f)

\* C4: a ConversionError returned by Convert has Direction "to_canonical"
\* and the from-name as Adapter exactly when the source's ToCanonical
\* failed, and Direction "from_canonical" and the to-name as Adapter exactly
\* when the target's FromCanonical failed.
C4_ErrorTagged ==
  outcome # <<>> =>
    LET o == outcome[1]
        e == o.res.err
        tagged(direction, adapter) ==
          /\ e # <<>>
          /\ e[1].type = "*ConversionError"
          /\ e[1].Direction = direction
          /\ e[1].Adapter = adapter
        isConversionError == e # <<>> /\ e[1].type = "*ConversionError"
    IN  /\ o.res.canonical.err # <<>> <=> tagged("to_canonical", o.fromFormat)
        /\ o.res.output.err # <<>> <=> tagged("from_canonical", o.toFormat)
        /\ isConversionError =>
             \/ e[1].Direction = "to_canonical" /\ e[1].Cause = o.res.canonical.err[1]
             \/ e[1].Direction = "from_canonical" /\ e[1].Cause = o.res.output.err[1]

\* a built-in target has refused the tool that the mock source lifted: the
\* error names the target and the direction from_canonical
C4_Witness ==
  /\ outcome # <<>>
  /\ outcome[1].fromFormat = "src"
  /\ outcome[1].toFormat = "gemini"
  /\ outcome[1].res.canonical.val # <<>>
  /\ outcome[1].res.output.err # <<>>
  /\ outcome[1].res.err # <<>>
  /\ outcome[1].res.err[1].Direction = "from_canonical"

\* the canonical tool with every schema keyword taken out
Stripped(ct) ==
  [ct EXCEPT !.InputSchema = IF @ = <<>> THEN <<>> ELSE <<JSONSchema>>,
             !.OutputSchema = IF @ = <<>> THEN <<>> ELSE <<JSONSchema>>]

\* C5: features the target does not support never make FromCanonical or
\* Convert fail: whenever the target accepts the tool stripped of its schema
\* keywords, Convert succeeds on the tool itself and delivers the losses as
\* the warnings of its result.
C5_LossNeverFails ==
  (outcome # <<>> /\ outcome[1].res.canonical.val # <<>>) =>
    LET o == outcome[1]
        ct == o.res.canonical.val[1]
        target == adapters[o.toFormat]
    IN  (o.toFormat \in DOMAIN adapters
           /\ FromCanonical(target, <<Stripped(ct)>>).err = <<>>) =>
          /\ o.res.output.err = <<>>
          /\ o.res.err = <<>>
          /\ o.res.result # <<>>
          /\ o.res.result[1].Warnings = detectFeatureLoss(ct, adapters[o.fromFormat], target)

\* a tool with a pattern two levels deep went to Anthropic, which has no
\* support for it: Convert succeeded and the result carries the warning
C5_Witness ==
  /\ outcome # <<>>
  /\ outcome[1].toFormat = "anthropic"
  /\ outcome[1].res.err = <<>>
  /\ outcome[1].res.result # <<>>
  /\ \E w \in BagToSet(outcome[1].res.result[1].Warnings) :
       w.Feature = "pattern" /\ w.Path = "/$defs/d/anyOf/1"

\* C6: whenever Convert returns an error it returns no ConversionResult:
\* neither a tool nor the warnings computed before the failure; and the
\* error is a single one.
C6_NothingPartial ==
  outcome # <<>> =>
    LET r == outcome[1].res
    IN  /\ Len(r.err) <= 1
        /\ r.err # <<>> => r.result = <<>>
        /\ (r.err = <<>> /\ ~r.panic) => r.result # <<>>

\* the projection failed after the walk had found losses to warn about
C6_Witness ==
  /\ outcome # <<>>
  /\ outcome[1].res.err # <<>>
  /\ outcome[1].res.output.err # <<>>
  /\ outcome[1].res.computed # EmptyBag

\* C7: when the from-name or the to-name is not registered, Convert returns
\* the registry's not-found error itself, not wrapped in a ConversionError,
\* and has called neither ToCanonical nor FromCanonical on any adapter.
C7_NotFoundFirst ==
  outcome # <<>> =>
    LET o == outcome[1]
        missing == IF o.fromFormat \notin DOMAIN adapters THEN o.fromFormat
                   ELSE o.toFormat
    IN  (o.fromFormat \notin DOMAIN adapters \/ o.toFormat \notin DOMAIN adapters) =>
          /\ o.res.err = <<ErrorString("adapter not found: " \o missing)>>
          /\ o.res.err = Get(adapters, missing).err
          /\ o.res.calls = <<>>
          /\ o.res.result = <<>>

\* the source is registered and would fail to lift, the target is missing
C7_Witness ==
  /\ outcome # <<>>
  /\ outcome[1].fromFormat = "bad"
  /\ outcome[1].toFormat = "nope"
  /\ outcome[1].res.err # <<>>

(***************************************************************************)
(* The registry under concurrent calls.  Each goroutine runs up to MaxOps  *)
(* operations, a statement at a time.  r.mu is Go's sync.RWMutex: Lock     *)
(* first shuts out other writers and new readers, then waits for the       *)
(* readers inside to leave; RLock waits while a writer holds or awaits the *)
(* lock.  A write of the map takes two steps, and a read that falls        *)
(* between them is a data race: what it returns is not determined.         *)
(***************************************************************************)
\* the adapter that goroutine p registers under name n
AdapterOf(p, n) ==
  mockAdapter(p, n, <<Ok(CanonicalWith("t", Plain, "input"))>>, <<>>, <<>>)

\* the operations a goroutine may start
Calls(p) ==
       {[op |-> "Register", name |-> n, toFormat |-> "", adapter |-> <<AdapterOf(p, n)>>] :
          n \in Names}
  \cup {[op |-> o, name |-> n, toFormat |-> "", adapter |-> <<>>] :
          o \in {"Unregister", "Get"}, n \in Names}
  \cup {[op |-> "List", name |-> "", toFormat |-> "", adapter |-> <<>>]}
  \cup {[op |-> "Convert", name |-> "a", toFormat |-> "b", adapter |-> <<>>]}

NoLocals ==
  [got |-> <<>>, source |-> <<>>, target |-> <<>>, stage |-> 1, names |-> {},
   todo |-> Names, torn |-> FALSE, err |-> <<>>, before |-> <<>>, live |-> {},
   at1 |-> 0, at2 |-> 0]

\* the names whose last successful registry write was a Register
Live == {n \in Names : lastOp[n] = "Register"}

Init ==
  /\ adapters = NewRegistry
  /\ IdleInit
  /\ tool = <<>>
  /\ outcome = <<>>

\* goroutine p starts operation c
Call(p, c) ==
  /\ pc[p] = "idle"
  /\ ops[p] < MaxOps
  /\ call' = [call EXCEPT ![p] = <<c>>]
  /\ local' = [local EXCEPT ![p] = <<NoLocals>>]
  /\ ret' = [ret EXCEPT ![p] = <<>>]
  /\ ops' = [ops EXCEPT ![p] = @ + 1]
  /\ seen' = [seen EXCEPT ![p] = <<adapters>>]
  /\ pc' = [pc EXCEPT ![p] = IF c.op \in {"Register", "Unregister"}
                               THEN "Lock" ELSE "RLock"]
  /\ UNCHANGED <<adapters, writing, mu, lastOp, tool, outcome>>

\* r.mu.Lock(), first half: take the writer's place
Lock(p) ==
  /\ pc[p] = "Lock"
  /\ mu.w = ""
  /\ mu' = [mu EXCEPT !.w = p]
  /\ pc' = [pc EXCEPT ![p] = "LockWait"]
  /\ UNCHANGED <<adapters, writing, call, local, ret, ops, lastOp, seen, tool, outcome>>

\* r.mu.Lock(), second half as it would be if it did not wait for readers
LockWaitRacy(p) ==
  /\ pc[p] = "LockWait"
  /\ mu' = [mu EXCEPT !.held = TRUE]
  /\ pc' = [pc EXCEPT ![p] = call[p][1].op]
  /\ UNCHANGED <<adapters, writing, call, local, ret, ops, lastOp, seen, tool, outcome>>

\* r.mu.Lock(), second half: wait until no reader is inside
LockWait(p) ==
  /\ pc[p] = "LockWait"
  /\ mu.readers = {}
  /\ mu' = [mu EXCEPT !.held = TRUE]
  /\ pc' = [pc EXCEPT ![p] = call[p][1].op]
  /\ UNCHANGED <<adapters, writing, call, local, ret, ops, lastOp, seen, tool, outcome>>

\* a write of the map has ended: every running call has one more mapping
\* that stood during it
Committed(after) ==
  [q \in Procs |-> IF pc[q] = "idle" THEN seen[q] ELSE Append(seen[q], after)]

\* Register inside the lock: name := a.Name(); the exists check; the start
\* of r.adapters[name] = a
RegisterCheck(p) ==
  /\ pc[p] = "Register"
  /\ LET r == Register(adapters, call[p][1].adapter[1])
     IN  /\ local' = [local EXCEPT ![p][1].before = <<adapters>>,
                                   ![p][1].live = Live,
                                   ![p][1].err = r.err]
         /\ writing' = (r.err = <<>>)
         /\ pc' = [pc EXCEPT ![p] = IF r.err = <<>> THEN "RegisterWrite" ELSE "Unlock"]
  /\ UNCHANGED <<adapters, mu, call, ret, ops, lastOp, seen, tool, outcome>>

\* the end of r.adapters[name] = a
RegisterWrite(p) ==
  /\ pc[p] = "RegisterWrite"
  /\ adapters' = Register(adapters, call[p][1].adapter[1]).adapters
  /\ writing' = FALSE
  /\ lastOp' = [lastOp EXCEPT ![call[p][1].name] = "Register"]
  /\ seen' = Committed(adapters')
  /\ pc' = [pc EXCEPT ![p] = "Unlock"]
  /\ UNCHANGED <<mu, call, local, ret, ops, tool, outcome>>

\* Unregister inside the lock: the exists check; the start of delete
UnregisterCheck(p) ==
  /\ pc[p] = "Unregister"
  /\ LET r == Unregister(adapters, call[p][1].name)
     IN  /\ local' = [local EXCEPT ![p][1].before = <<adapters>>,
                                   ![p][1].live = Live,
                                   ![p][1].err = r.err]
         /\ writing' = (r.err = <<>>)
         /\ pc' = [pc EXCEPT ![p] = IF r.err = <<>> THEN "UnregisterDelete" ELSE "Unlock"]
  /\ UNCHANGED <<adapters, mu, call, ret, ops, lastOp, seen, tool, outcome>>

\* the end of delete(r.adapters, name)
UnregisterDelete(p) ==
  /\ pc[p] = "UnregisterDelete"
  /\ adapters' = Unregister(adapters, call[p][1].name).adapters
  /\ writing' = FALSE
  /\ lastOp' = [lastOp EXCEPT ![call[p][1].name] = "Unregister"]
  /\ seen' = Committed(adapters')
  /\ pc' = [pc EXCEPT ![p] = "Unlock"]
  /\ UNCHANGED <<mu, call, local, ret, ops, tool, outcome>>

\* what a finished operation leaves for its caller, with what it saw
Returned(p, val, err, res) ==
  [op |-> call[p][1].op, name |-> call[p][1].name, toFormat |-> call[p][1].toFormat,
   by |-> p, val |-> val, err |-> err, res |-> res,
   names |-> local[p][1].names, torn |-> local[p][1].torn,
   before |-> local[p][1].before, after |-> <<adapters>>,
   live |-> local[p][1].live, seen |-> seen[p],
   source |-> local[p][1].source, target |-> local[p][1].target,
   at1 |-> local[p][1].at1, at2 |-> local[p][1].at2]

\* the return of Register or Unregister as it would be with no deferred
\* r.mu.Unlock(): the lock stays with the goroutine that returned
UnlockForgotten(p) ==
  /\ pc[p] = "Unlock"
  /\ ret' = [ret EXCEPT ![p] = <<Returned(p, <<>>, local[p][1].err, <<>>)>>]
  /\ pc' = [pc EXCEPT ![p] = "idle"]
  /\ seen' = [seen EXCEPT ![p] = <<>>]
  /\ UNCHANGED <<adapters, writing, mu, call, local, ops, lastOp, tool, outcome>>

\* the deferred r.mu.Unlock() and the return of Register or Unregister
Unlock(p) ==
  /\ pc[p] = "Unlock"
  /\ mu' = [mu EXCEPT !.w = "", !.held = FALSE]
  /\ ret' = [ret EXCEPT ![p] = <<Returned(p, <<>>, local[p][1].err, <<>>)>>]
  /\ pc' = [pc EXCEPT ![p] = "idle"]
  /\ seen' = [seen EXCEPT ![p] = <<>>]
  /\ UNCHANGED <<adapters, writing, call, local, ops, lastOp, tool, outcome>>

\* r.mu.RLock() as it would be if it did not wait for a writer
RLockRacy(p) ==
  /\ pc[p] = "RLock"
  /\ mu' = [mu EXCEPT !.readers = @ \cup {p}]
  /\ pc' = [pc EXCEPT ![p] = IF call[p][1].op = "List" THEN "ListRange" ELSE "GetRead"]
  /\ UNCHANGED <<adapters, writing, call, local, ret, ops, lastOp, seen, tool, outcome>>

\* r.mu.RLock(): wait while a writer holds the lock or waits for it
RLock(p) ==
  /\ pc[p] = "RLock"
  /\ mu.w = ""
  /\ mu' = [mu EXCEPT !.readers = @ \cup {p}]
  /\ pc' = [pc EXCEPT ![p] = IF call[p][1].op = "List" THEN "ListRange" ELSE "GetRead"]
  /\ UNCHANGED <<adapters, writing, call, local, ret, ops, lastOp, seen, tool, outcome>>

\* what r.adapters[name] may give while the map is being written
RacyGet(name) ==
  {Get(adapters, name), Get(NewRegistry, name)}
    \cup {Ok(adapters[n]) : n \in DOMAIN adapters}

\* adapter, exists := r.adapters[name] in Get; Convert calls Get for its
\* fromFormat first and for its toFormat second
GetRead(p) ==
  /\ pc[p] = "GetRead"
  /\ LET c == call[p][1]
         l == local[p][1]
         name == IF c.op = "Convert" /\ l.stage = 2 THEN c.toFormat ELSE c.name
     IN  \E got \in IF writing THEN RacyGet(name) ELSE {Get(adapters, name)} :
           local' = [local EXCEPT
                       ![p][1].got = <<got>>,
                       ![p][1].torn = l.torn \/ writing,
                       ![p][1].live = Live,
                       ![p][1].source = IF l.stage = 1 THEN <<got>> ELSE @,
                       ![p][1].target = IF l.stage = 2 THEN <<got>> ELSE @,
                       ![p][1].at1 = IF l.stage = 1 THEN Len(seen[p]) ELSE @,
                       ![p][1].at2 = IF l.stage = 2 THEN Len(seen[p]) ELSE @]
  /\ pc' = [pc EXCEPT ![p] = "RUnlock"]
  /\ UNCHANGED <<adapters, writing, mu, call, ret, ops, lastOp, seen, tool, outcome>>

\* one round of `for name := range r.adapters` in List: the rounds visit
\* the names in no fixed order and append those that are keys of the map
ListRange(p) ==
  /\ pc[p] = "ListRange"
  /\ \E n \in local[p][1].todo :
       /\ \E present \in IF writing THEN BOOLEAN ELSE {n \in DOMAIN adapters} :
            local' = [local EXCEPT
                        ![p][1].names = IF present THEN @ \cup {n} ELSE @,
                        ![p][1].todo = @ \ {n},
                        ![p][1].torn = @ \/ writing,
                        ![p][1].live = Live]
       /\ pc' = [pc EXCEPT ![p] = IF local[p][1].todo = {n} THEN "RUnlock" ELSE "ListRange"]
  /\ UNCHANGED <<adapters, writing, mu, call, ret, ops, lastOp, seen, tool, outcome>>

\* the deferred r.mu.RUnlock() and the return of Get or List; in Convert,
\* the return of one of its two Get calls and the error check after it
RUnlock(p) ==
  /\ pc[p] = "RUnlock"
  /\ mu' = [mu EXCEPT !.readers = @ \ {p}]
  /\ LET c == call[p][1]
         l == local[p][1]
         got == IF c.op = "List" THEN [val |-> <<>>, err |-> <<>>] ELSE l.got[1]
         none == [result |-> <<>>, err |-> got.err, panic |-> FALSE, calls |-> <<>>,
                  canonical |-> [val |-> <<>>, err |-> <<>>],
                  output |-> [val |-> <<>>, err |-> <<>>], computed |-> EmptyBag]
     IN  IF c.op = "Convert" /\ got.err = <<>>
           THEN /\ pc' = [pc EXCEPT ![p] = IF l.stage = 1 THEN "RLock" ELSE "Convert"]
                /\ local' = [local EXCEPT ![p][1].stage = 2]
                /\ UNCHANGED <<ret, seen>>
           ELSE /\ pc' = [pc EXCEPT ![p] = "idle"]
                /\ ret' = [ret EXCEPT ![p] =
                             <<Returned(p, got.val, got.err,
                                        IF c.op = "Convert" THEN <<none>> ELSE <<>>)>>]
                /\ seen' = [seen EXCEPT ![p] = <<>>]
                /\ UNCHANGED local
  /\ UNCHANGED <<adapters, writing, call, ops, lastOp, tool, outcome>>

\* the rest of Convert, once both adapters are in hand
ConvertRun(p) ==
  /\ pc[p] = "Convert"
  /\ LET c == call[p][1]
         l == local[p][1]
         res == convertWith(l.source[1].val[1], l.target[1].val[1], tool,
                            c.name, c.toFormat)
     IN  ret' = [ret EXCEPT ![p] = <<Returned(p, <<>>, res.err, <<res>>)>>]
  /\ pc' = [pc EXCEPT ![p] = "idle"]
  /\ seen' = [seen EXCEPT ![p] = <<>>]
  /\ UNCHANGED <<adapters, writing, mu, call, local, ops, lastOp, tool, outcome>>

Next ==
  \E p \in Procs :
    \/ \E c \in Calls(p) : Call(p, c)
    \/ Lock(p)
    \/ LockWait(p)
    \/ RegisterCheck(p)
    \/ RegisterWrite(p)
    \/ UnregisterCheck(p)
    \/ UnregisterDelete(p)
    \/ Unlock(p)
    \/ RLock(p)
    \/ GetRead(p)
    \/ ListRange(p)
    \/ RUnlock(p)
    \/ ConvertRun(p)

Spec == Init /\ [][Next]_vars

\* the statements of goroutine p once its operation has started
Step(p) ==
  \/ Lock(p)
  \/ LockWait(p)
  \/ RegisterCheck(p)
  \/ RegisterWrite(p)
  \/ UnregisterCheck(p)
  \/ UnregisterDelete(p)
  \/ Unlock(p)
  \/ RLock(p)
  \/ GetRead(p)
  \/ ListRange(p)
  \/ RUnlock(p)
  \/ ConvertRun(p)

\* The Go scheduler runs every goroutine that can run, and a goroutine
\* blocked on r.mu is woken when the lock is handed on: a statement that
\* stays enabled is taken.  Whether a goroutine starts another operation is
\* up to its caller, so Call is under no fairness.
SpecLive == Init /\ [][Next]_vars /\ \A p \in Procs : WF_vars(Step(p))

(***************************************************************************)
(* Properties of the registry under concurrent calls, read off what each   *)
(* finished operation returned.                                            *)
(***************************************************************************)
Finished(op) == {ret[p][1] : p \in {q \in Procs : ret[q] # <<>> /\ ret[q][1].op = op}}

\* C1: under any interleaving of Register, Get, List and Unregister, every
\* Get and every List returns what one of the mappings that stood between
\* two whole writes during the call holds; none reads a write half done.
C1_AtomicObservation ==
  /\ \A r \in Finished("Get") :
       /\ ~r.torn
       /\ \E i \in 1..Len(r.seen) : Get(r.seen[i], r.name) = [val |-> r.val, err |-> r.err]
  /\ \A r \in Finished("List") :
       /\ ~r.torn
       /\ \E i \in 1..Len(r.seen) : r.names = List(r.seen[i])

\* a List has returned both names after a Register by the other goroutine
\* went through while the List call was under way
C1_Witness ==
  \E r \in Finished("List") :
    /\ r.names = Names
    /\ Len(r.seen) >= 2
    /\ DOMAIN r.seen[1] # Names

\* C8: Convert never proceeds with a source and a target adapter that were
\* not both registered, under the two names, in one of the mappings that
\* stood during the call.
C8_OneInstant ==
  \A r \in Finished("Convert") :
    r.res[1].calls # <<>> =>
      \E i \in 1..Len(r.seen) :
        /\ Get(r.seen[i], r.name) = r.source[1]
        /\ Get(r.seen[i], r.toFormat) = r.target[1]

\* C8 as the code has it: each of the two lookups of Convert returns what
\* the mapping that stood at the instant of that lookup holds, the lookup of
\* the target no earlier than the lookup of the source; Convert proceeds
\* only with adapters found so, and fails with the not-found error of the
\* first lookup that missed.
C8_EachLookupOneInstant ==
  \A r \in Finished("Convert") :
    /\ ~r.torn
    /\ r.at1 \in 1..Len(r.seen)
    /\ r.source[1] = Get(r.seen[r.at1], r.name)
    /\ r.source[1].err # <<>> => r.err = r.source[1].err /\ r.res[1].calls = <<>>
    /\ r.source[1].err = <<>> =>
         /\ r.at2 \in r.at1..Len(r.seen)
         /\ r.target[1] = Get(r.seen[r.at2], r.toFormat)
         /\ r.target[1].err # <<>> => r.err = r.target[1].err /\ r.res[1].calls = <<>>
         /\ r.target[1].err = <<>> =>
              r.res[1].calls = <<Called(r.source[1].val[1], "ToCanonical"),
                                 Called(r.target[1].val[1], "FromCanonical")>>

\* a Convert has gone through although its source was unregistered before
\* its target was registered
C8_Witness ==
  \E r \in Finished("Convert") :
    /\ r.res[1].calls # <<>>
    /\ r.at1 < r.at2
    /\ \A i \in 1..Len(r.seen) : ~(r.name \in DOMAIN r.seen[i] /\ r.toFormat \in DOMAIN r.seen[i])

\* C9: Register of an adapter whose name is registered returns an error and
\* leaves the mapping as it was: the name maps to the adapter registered
\* first and no other entry is added, removed or replaced.
C9_DuplicateRejected ==
  \A r \in Finished("Register") :
    r.name \in DOMAIN r.before[1] =>
      /\ r.err = <<ErrorString("adapter already registered: " \o r.name)>>
      /\ r.after = r.before

\* a goroutine's Register was refused because the other goroutine's
\* adapter holds the name, and still holds it
C9_Witness ==
  \E r \in Finished("Register") :
    /\ r.err # <<>>
    /\ r.before[1][r.name].ptr # r.by
    /\ adapters[r.name].ptr # r.by

\* C10: the names List returns and the names for which Get succeeds are the
\* names whose last successful registry write was a Register; for any other
\* name Get and Unregister return the not-found error.
C10_LiveNames ==
  /\ ~writing => DOMAIN adapters = Live
  /\ \A r \in Finished("List") : r.names = r.live
  /\ \A r \in Finished("Get") :
       /\ r.name \in r.live => r.err = <<>> /\ r.val # <<>>
       /\ r.name \notin r.live => r.err = <<ErrorString("adapter not found: " \o r.name)>>
  /\ \A r \in Finished("Unregister") :
       /\ r.name \in r.live => r.err = <<>>
       /\ r.name \notin r.live => r.err = <<ErrorString("adapter not found: " \o r.name)>>

\* a name was registered and unregistered again, and a Get for it has
\* returned not-found
C10_Witness ==
  \E r \in Finished("Get") :
    /\ lastOp[r.name] = "Unregister"
    /\ r.err # <<>>
    /\ r.name \notin r.live

\* C11: no interleaving of concurrent Register, Get, List, Unregister and
\* Convert calls deadlocks: every call a goroutine has started returns in
\* the end, and when it has returned the goroutine neither holds nor awaits
\* the registry lock, as a writer or as a reader.
C11_EveryCallReturns ==
  \A p \in Procs :
    (pc[p] # "idle") ~> (pc[p] = "idle" /\ ret[p] # <<>> /\ mu.w # p /\ p \notin mu.readers)

\* a writer has announced itself and waits for a Convert that is inside the
\* read lock for its second lookup
C11_Witness ==
  \E p \in Procs, q \in Procs :
    /\ pc[q] = "LockWait"
    /\ mu.w = q
    /\ mu.readers = {p}
    /\ call[p][1].op = "Convert"
    /\ local[p][1].stage = 2

(***************************************************************************)
(* The adapters one call at a time.  The input is a native tool of one of  *)
(* the five formats, nil, or a canonical tool; a call lifts it, projects   *)
(* it, does both in a row, or converts it through DefaultRegistry.         *)
(***************************************************************************)
\* map-form schemas of native tools
RichSchema ==
  [ObjectSchema EXCEPT
     !.Properties = "a" :> [Plain EXCEPT !.Enum = <<StringV("x")>>],
     !.Required = <<"a">>]

PatternSchema ==
  [ObjectSchema EXCEPT !.Properties = "a" :> [Plain EXCEPT !.Pattern = "^a"]]

Parameters == {<<>>, <<ToMap(ObjectSchema)>>, <<ToMap(RichSchema)>>, <<ToMap(PatternSchema)>>}

MCPBase ==
  [ModelTool EXCEPT !.Name = "t", !.InputSchema = <<MapV(ToMap(ObjectSchema))>>]

Metas ==
  { <<>>, << <<>> >>, <<"summary" :> StringV("s")>>, <<"x" :> StringV("y")>>,
    <<"inputModes" :> SliceStrV(<<"text">>)>>,
    <<"inputModes" :> SliceAnyV(<<StringV("text"), IntV(1)>>)>> }

AnnotationChoices ==
  { <<>>, <<ToolAnnotations>>,
    <<[ToolAnnotations EXCEPT !.ReadOnlyHint = TRUE, !.Title = "A"]>> }

MCPTools ==
       {[t |-> "*model.Tool",
         v |-> [MCPBase EXCEPT !.Title = title, !.Meta = meta, !.Annotations = ann,
                               !.Icons = icons, !.Tags = tags]] :
          title \in {"", "T"}, meta \in Metas, ann \in AnnotationChoices,
          icons \in {<<>>, <<"icon">>}, tags \in {<<>>, <<"x">>}}
  \cup {[t |-> kind, v |-> [MCPBase EXCEPT !.Meta = meta]] :
          kind \in {"model.Tool", "*mcp.Tool", "mcp.Tool"},
          meta \in {<<>>, <<"x" :> StringV("y")>>}}
  \cup {[t |-> "*model.Tool",
         v |-> [MCPBase EXCEPT !.Name = name, !.Namespace = ns, !.Version = ver,
                               !.InputSchema = input, !.OutputSchema = output]] :
          name \in {"t", ""}, ns \in {"", "ns"}, ver \in {"", "v1"},
          input \in {<<>>, <<MapV(ToMap(RichSchema))>>, <<[t |-> "map[string]string", v |-> <<>>]>>,
                     <<[t |-> "*JSONSchema", v |-> RichSchema]>>},
          output \in {<<>>, <<MapV(ToMap(PatternSchema))>>}}

OpenAITools ==
       {[t |-> "*OpenAITool",
         v |-> [Type |-> "function",
                Function |-> [Name |-> name, Description |-> desc,
                              Parameters |-> params, Strict |-> strict]]] :
          name \in {"t", ""}, desc \in {"", "d"}, params \in Parameters,
          strict \in {<<>>, <<TRUE>>, <<FALSE>>}}
  \cup {[t |-> kind,
         v |-> [Name |-> "t", Description |-> "d", Parameters |-> params,
                Strict |-> <<TRUE>>]] :
          kind \in {"*OpenAIFunction", "OpenAIFunction"}, params \in Parameters}
  \cup {[t |-> "OpenAITool", v |-> [OpenAITool EXCEPT !.Function.Name = "t"]]}

AnthropicCacheControl == [Type |-> "ephemeral"]

AnthropicTools ==
  {[t |-> kind,
    v |-> [Name |-> name, Description |-> "d", InputSchema |-> params,
           CacheControl |-> cc, InputExamples |-> ex]] :
     kind \in {"*AnthropicTool", "AnthropicTool"}, name \in {"t", ""},
     params \in Parameters, cc \in {<<>>, <<AnthropicCacheControl>>},
     ex \in {<<>>, <<StringV("e")>>}}

GeminiTools ==
       {[t |-> kind, v |-> [Name |-> name, Description |-> "d", Parameters |-> params]] :
          kind \in {"*GeminiFunctionDeclaration", "GeminiFunctionDeclaration"},
          name \in {"t", ""}, params \in Parameters}
  \cup {[t |-> kind,
         v |-> [FunctionDeclarations |->
                  [i \in 1..n |-> [GeminiFunctionDeclaration EXCEPT !.Name = "t"]]]] :
          kind \in {"*GeminiTool", "GeminiTool"}, n \in 0..2}

A2ASkills ==
       {[t |-> kind,
         v |-> [A2AAgentSkill EXCEPT !.ID = id, !.Name = name, !.Tags = tags]] :
          kind \in {"*A2AAgentSkill", "A2AAgentSkill"},
          id \in {"", "t", "ns:t", "ns:t:v1", ":t", "ns:t:", "ns:t:v1:"},
          name \in {"", "T"}, tags \in {<<>>, <<"x">>}}
  \cup {[t |-> "*A2AAgentCard", v |-> <<>>]}

\* canonical tools as a caller may hand them to FromCanonical
CanonicalBase ==
  [CanonicalTool EXCEPT !.Name = "t", !.InputSchema = <<ObjectSchema>>]

\* a schema whose default is a mapping
DefaultSchema ==
  [ObjectSchema EXCEPT !.Default = <<MapV("k" :> StringV("v"))>>]

CanonicalTools ==
       {[t |-> "*CanonicalTool",
         v |-> [CanonicalBase EXCEPT !.Name = name, !.InputSchema = input,
                                     !.Namespace = ns, !.Version = ver,
                                     !.Summary = summary, !.Tags = tags]] :
          name \in {"t", ""},
          input \in {<<>>, <<ObjectSchema>>, <<RichSchema>>, <<DefaultSchema>>},
          ns \in {"", "ns"}, ver \in {"", "v1"}, summary \in {"", "s"},
          tags \in {<<>>, <<"x">>}}
  \cup {[t |-> "*CanonicalTool",
         v |-> [CanonicalBase EXCEPT !.Summary = summary, !.SourceMeta = sm]] :
          summary \in {"", "s"},
          sm \in { "meta" :> [t |-> "mcp.Meta", v |-> "x" :> StringV("y")],
                   "meta" :> [t |-> "mcp.Meta", v |-> "summary" :> StringV("old")],
                   "skillId" :> StringV("ns:t"), "strict" :> BoolV(TRUE),
                   "cache_control" :> [t |-> "*AnthropicCacheControl",
                                       v |-> AnthropicCacheControl],
                   "icons" :> [t |-> "[]mcp.Icon", v |-> <<"icon">>] }}
  \cup {[t |-> "*CanonicalTool",
         v |-> [CanonicalBase EXCEPT !.Namespace = ns, !.Version = ver,
                                     !.SourceMeta = "skillId" :> id]] :
          ns \in {"", "ns"}, ver \in {"", "v1"},
          id \in {StringV("id"), StringV(""), IntV(7)}}
  \cup {[t |-> "*CanonicalTool",
         v |-> [CanonicalBase EXCEPT !.Description = description,
                                     !.Summary = summary,
                                     !.DisplayName = displayName]] :
          description \in {"", "d"}, summary \in {"", "s"}, displayName \in {"", "D"}}

Inputs ==
  {<<>>} \cup {<<x>> : x \in MCPTools \cup OpenAITools \cup AnthropicTools
                          \cup GeminiTools \cup A2ASkills \cup CanonicalTools}

IsCanonical(input) == input # <<>> /\ input[1].t = "*CanonicalTool"

\* the *CanonicalTool argument that an input stands for
AsCanonical(input) == IF input = <<>> THEN <<>> ELSE <<input[1].v>>

(***************************************************************************)
(* What a call leaves of its arguments.  The only stores of the adapters   *)
(* into an object they did not allocate are the tool.Meta[k] = v           *)
(* statements of the MCP FromCanonical: tool.Meta is the map found in      *)
(* SourceMeta["meta"] whenever there is one, and that map is the Meta of   *)
(* the raw tool whenever the canonical tool came out of the MCP            *)
(* ToCanonical.  A "meta" entry of SourceMeta holds a map that is not nil. *)
(***************************************************************************)
\* the canonical tool after FromCanonical(a, ct) has returned
FromCanonicalLeaves(a, ct) ==
  IF /\ a.impl = "MCPAdapter"
     /\ ct # <<>>
     /\ ct[1].Name # ""
     /\ Index(ct[1].SourceMeta, "meta").t \in {"mcp.Meta", "map[string]any"}
    THEN <<[ct[1] EXCEPT !.SourceMeta["meta"].v = metaStores(ct[1]) @@ @]>>
    ELSE ct

\* the raw tool once the canonical tool lifted from it by a is as in after
ToCanonicalShares(a, raw, after) ==
  IF /\ a.impl = "MCPAdapter"
     /\ raw # <<>>
     /\ raw[1].t \in {"*model.Tool", "model.Tool", "*mcp.Tool", "mcp.Tool"}
     /\ raw[1].v.Meta # <<>>
     /\ after # <<>>
     /\ "meta" \in DOMAIN after[1].SourceMeta
    THEN <<[raw[1] EXCEPT !.v.Meta = <<after[1].SourceMeta["meta"].v>>]>>
    ELSE raw

(***************************************************************************)
(* The mappings, sequences and pointers of a projected tool, each with the *)
(* place in the canonical tool that it is the same object as, if any.  A   *)
(* place is the path of field names, keys and indices that leads to the    *)
(* object; an assignment of a slice, a map or a pointer in the code makes  *)
(* the two places one object, a make/copy or a composite literal a fresh   *)
(* one.  A nil slice or map is no object.                                  *)
(***************************************************************************)
Object(out, kind, from) == [out |-> out, kind |-> kind, from |-> from]

\* the objects of schema.ToMap() when unfiltered, and of
\* filterXSchema(schema).ToMap() otherwise; kept are the keywords with
\* sub-schemas that the filter copies
RECURSIVE schemaObjects(_, _, _, _, _)
schemaObjects(schema, out, in, filtered, kept) ==
  LET named(F, kw, field) ==
        IF kw \in kept /\ DOMAIN F # {}
          THEN {Object(out \o <<kw, "v">>, "map", <<>>)}
               \cup UNION {schemaObjects(F[k], out \o <<kw, "v", k, "v">>,
                                         in \o <<field, k>>, filtered, kept) :
                             k \in DOMAIN F}
          ELSE {}
      single(x, kw, field) ==
        IF kw \in kept /\ x # <<>>
          THEN schemaObjects(x[1], out \o <<kw, "v">>, in \o <<field, 1>>, filtered, kept)
          ELSE {}
      listed(L, kw, field) ==
        IF kw \in kept /\ Len(L) > 0
          THEN {Object(out \o <<kw, "v">>, "anys", <<>>)}
               \cup UNION {schemaObjects(L[i], out \o <<kw, "v", i, "v">>,
                                         in \o <<field, i>>, filtered, kept) :
                             i \in 1..Len(L)}
          ELSE {}
  IN       {Object(out, "map", <<>>)}
      \cup (IF Len(schema.Required) > 0
              THEN {Object(out \o <<"required", "v">>, "strings",
                           IF filtered THEN <<>> ELSE <<in \o <<"Required">>>>)}
              ELSE {})
      \cup (IF Len(schema.Enum) > 0
              THEN {Object(out \o <<"enum", "v">>, "anys",
                           IF filtered THEN <<>> ELSE <<in \o <<"Enum">>>>)}
              ELSE {})
      \cup (IF ~filtered /\ Len(schema.Examples) > 0
              THEN {Object(out \o <<"examples", "v">>, "anys", <<in \o <<"Examples">>>>)}
              ELSE {})
      \cup (IF schema.Default # <<>> /\ schema.Default[1].t = "map[string]any"
              THEN {Object(out \o <<"default", "v">>, "map", <<in \o <<"Default", 1, "v">>>>)}
              ELSE {})
      \cup named(schema.Properties, "properties", "Properties")
      \cup named(schema.Defs, "$defs", "Defs")
      \cup single(schema.Items, "items", "Items")
      \cup listed(schema.AnyOf, "anyOf", "AnyOf")
      \cup listed(schema.OneOf, "oneOf", "OneOf")
      \cup listed(schema.AllOf, "allOf", "AllOf")
      \cup single(schema.Not, "not", "Not")

AllKept == {"properties", "$defs", "items", "anyOf", "oneOf", "allOf", "not"}

\* a string slice of the canonical tool assigned as it is
assigned(c, field, out) ==
  IF Len(c[field]) > 0 THEN {Object(out, "strings", <<<<field>>>>)} ELSE {}

MCPObjects(c) ==
  LET sm == c.SourceMeta
      restored == Index(sm, "meta").t \in {"mcp.Meta", "map[string]any"}
      \* tool.Meta is set to nil when it is empty in the end
      hasMeta == DOMAIN (metaStores(c) @@ (IF restored THEN sm["meta"].v ELSE <<>>)) # {}
  IN       assigned(c, "Tags", <<"Tags">>)
      \cup (IF c.InputSchema # <<>>
              THEN schemaObjects(c.InputSchema[1], <<"InputSchema", 1, "v">>,
                                 <<"InputSchema", 1>>, FALSE, AllKept)
              ELSE {})
      \cup (IF c.OutputSchema # <<>>
              THEN schemaObjects(c.OutputSchema[1], <<"OutputSchema", 1, "v">>,
                                 <<"OutputSchema", 1>>, FALSE, AllKept)
              ELSE {})
      \cup (IF hasMeta
              THEN {Object(<<"Meta", 1>>, "map",
                           IF restored THEN <<<<"SourceMeta", "meta", "v">>>> ELSE <<>>)}
              ELSE {})
      \cup (IF Index(sm, "icons").t = "[]mcp.Icon" /\ Len(sm["icons"].v) > 0
              THEN {Object(<<"Icons">>, "strings", <<<<"SourceMeta", "icons", "v">>>>)}
              ELSE {})
      \cup assigned(c, "InputModes", <<"Meta", 1, "inputModes", "v">>)
      \cup assigned(c, "OutputModes", <<"Meta", 1, "outputModes", "v">>)
      \cup assigned(c, "Examples", <<"Meta", 1, "examples", "v">>)
      \cup (IF DOMAIN c.UIHints # {}
              THEN {Object(<<"Meta", 1, "uiHints", "v">>, "map", <<<<"UIHints">>>>)}
              ELSE {})

OpenAIObjects(c) ==
  IF c.InputSchema # <<>>
    THEN schemaObjects(c.InputSchema[1], <<"Function", "Parameters", 1>>,
                       <<"InputSchema", 1>>, TRUE, {"properties", "items"})
    ELSE {Object(<<"Function", "Parameters", 1>>, "map", <<>>)}

AnthropicObjects(c) ==
  LET sm == c.SourceMeta
  IN       (IF c.InputSchema # <<>>
              THEN schemaObjects(c.InputSchema[1], <<"InputSchema", 1>>,
                                 <<"InputSchema", 1>>, TRUE, {"properties", "items", "anyOf"})
              ELSE {Object(<<"InputSchema", 1>>, "map", <<>>)})
      \cup (IF Index(sm, "cache_control").t = "*AnthropicCacheControl"
              THEN {Object(<<"CacheControl", 1>>, "ptr",
                           <<<<"SourceMeta", "cache_control", "v">>>>)}
              ELSE {})
      \cup (IF Index(sm, "input_examples").t = "[]any" /\ Len(sm["input_examples"].v) > 0
              THEN {Object(<<"InputExamples">>, "anys",
                           <<<<"SourceMeta", "input_examples", "v">>>>)}
              ELSE {})

GeminiObjects(c) ==
       {Object(<<"FunctionDeclarations">>, "decls", <<>>)}
  \cup (IF c.InputSchema # <<>>
          THEN schemaObjects(c.InputSchema[1], <<"FunctionDeclarations", 1, "Parameters", 1>>,
                             <<"InputSchema", 1>>, TRUE,
                             {"properties", "items", "anyOf", "$defs"})
          ELSE {Object(<<"FunctionDeclarations", 1, "Parameters", 1>>, "map", <<>>)})

A2AObjects(c) ==
       assigned(c, "Tags", <<"Tags">>)
  \cup assigned(c, "Examples", <<"Examples">>)
  \cup assigned(c, "InputModes", <<"InputModes">>)
  \cup assigned(c, "OutputModes", <<"OutputModes">>)

\* the objects of the tool that FromCanonical(a, ct) returned
Objects(a, c) ==
  CASE a.impl = "MCPAdapter"       -> MCPObjects(c)
    [] a.impl = "OpenAIAdapter"    -> OpenAIObjects(c)
    [] a.impl = "AnthropicAdapter" -> AnthropicObjects(c)
    [] a.impl = "A2AAdapter"       -> A2AObjects(c)
    [] a.impl = "GeminiAdapter"    -> GeminiObjects(c)
    [] OTHER                       -> {}

\* a store into an object: an element of a slice, a key of a map, a field
stored(v, kind) ==
  CASE kind = "strings" -> [v EXCEPT ![1] = "w"]
    [] kind = "anys"    -> [v EXCEPT ![1] = StringV("w")]
    [] kind = "decls"   -> [v EXCEPT ![1] = [GeminiFunctionDeclaration EXCEPT !.Name = "w"]]
    [] kind = "map"     -> ("w" :> StringV("w")) @@ v
    [] kind = "ptr"     -> [v EXCEPT !.Type = "w"]
    [] kind = "schemas" -> ("w" :> JSONSchema) @@ v
    [] kind = "nodes"   -> [v EXCEPT ![1] = JSONSchema]
    [] kind = "node"    -> [v EXCEPT !.Title = "w"]
    [] kind = "number"  -> [v EXCEPT ![1] = @ + 1]
    [] kind = "flag"    -> [v EXCEPT ![1] = ~@]

\* the value v after the store into the object at path
RECURSIVE storeAt(_, _, _)
storeAt(v, path, kind) ==
  IF path = <<>> THEN stored(v, kind)
  ELSE [v EXCEPT ![Head(path)] = storeAt(v[Head(path)], Tail(path), kind)]

\* stores a caller makes into a projected tool once it has it
MaxWrites == 1

None == [val |-> <<>>, err |-> <<>>]

InitAdapters ==
  /\ IdleInit
  /\ adapters = DefaultRegistry
  /\ tool \in Inputs
  /\ outcome = <<>>

\* A.ToCanonical(tool)
DoToCanonical(name) ==
  /\ outcome = <<>>
  /\ ~IsCanonical(tool)
  /\ LET canonical == ToCanonical(adapters[name], tool)
     IN  outcome' = <<[op |-> "ToCanonical", from |-> name, to |-> name,
                       canonical |-> canonical, output |-> None,
                       err |-> canonical.err,
                       given |-> <<>>, canonicalAfter |-> <<>>,
                       toolAfter |-> ToCanonicalShares(adapters[name], tool, canonical.val),
                       canonicalNow |-> <<>>, objects |-> {}, written |-> 0]>>
  /\ UNCHANGED <<adapters, writing, mu, pc, call, local, ret, ops, lastOp, seen, tool>>

\* A.FromCanonical(tool), the tool a canonical one or nil
DoFromCanonical(name) ==
  /\ outcome = <<>>
  /\ tool = <<>> \/ IsCanonical(tool)
  /\ LET ct == AsCanonical(tool)
         output == FromCanonical(adapters[name], ct)
     IN  outcome' = <<[op |-> "FromCanonical", from |-> name, to |-> name,
                       canonical |-> [val |-> ct, err |-> <<>>], output |-> output,
                       err |-> output.err,
                       given |-> ct,
                       canonicalAfter |-> FromCanonicalLeaves(adapters[name], ct),
                       toolAfter |-> tool,
                       canonicalNow |-> FromCanonicalLeaves(adapters[name], ct),
                       objects |-> IF output.val # <<>> THEN Objects(adapters[name], ct[1])
                                   ELSE {},
                       written |-> 0]>>
  /\ UNCHANGED <<adapters, writing, mu, pc, call, local, ret, ops, lastOp, seen, tool>>

\* A.FromCanonical(A.ToCanonical(tool)), the projection made only of a tool
\* that was lifted
DoRoundTrip(name) ==
  /\ outcome = <<>>
  /\ ~IsCanonical(tool)
  /\ LET canonical == ToCanonical(adapters[name], tool)
         output == IF canonical.err = <<>>
                     THEN FromCanonical(adapters[name], canonical.val) ELSE None
         after == IF canonical.err = <<>>
                    THEN FromCanonicalLeaves(adapters[name], canonical.val)
                    ELSE canonical.val
     IN  outcome' = <<[op |-> "RoundTrip", from |-> name, to |-> name,
                       canonical |-> canonical, output |-> output,
                       err |-> IF canonical.err # <<>> THEN canonical.err ELSE output.err,
                       given |-> canonical.val, canonicalAfter |-> after,
                       toolAfter |-> ToCanonicalShares(adapters[name], tool, after),
                       canonicalNow |-> after,
                       objects |-> IF output.val # <<>>
                                     THEN Objects(adapters[name], canonical.val[1]) ELSE {},
                       written |-> 0]>>
  /\ UNCHANGED <<adapters, writing, mu, pc, call, local, ret, ops, lastOp, seen, tool>>

\* r.Convert(tool, fromFormat, toFormat) on DefaultRegistry
DoConvertDefault(fromFormat, toFormat) ==
  /\ outcome = <<>>
  /\ ~IsCanonical(tool)
  /\ \E res \in {Convert(adapters, tool, fromFormat, toFormat)} :
       \E after \in {IF res.output.val # <<>> \/ res.output.err # <<>>
                       THEN FromCanonicalLeaves(adapters[toFormat], res.canonical.val)
                       ELSE res.canonical.val} :
         outcome' = <<[op |-> "Convert", from |-> fromFormat, to |-> toFormat,
                       canonical |-> res.canonical, output |-> res.output,
                       err |-> res.err,
                       given |-> res.canonical.val, canonicalAfter |-> after,
                       toolAfter |-> ToCanonicalShares(adapters[fromFormat], tool, after),
                       canonicalNow |-> after,
                       objects |-> IF res.output.val # <<>>
                                     THEN Objects(adapters[toFormat], res.canonical.val[1])
                                     ELSE {},
                       written |-> 0]>>
  /\ UNCHANGED <<adapters, writing, mu, pc, call, local, ret, ops, lastOp, seen, tool>>

\* the caller stores into an object of the tool that a projection returned
WriteOutput(object) ==
  /\ outcome # <<>>
  /\ outcome[1].written < MaxWrites
  /\ object \in outcome[1].objects
  /\ outcome' =
       <<[outcome[1] EXCEPT
            !.output.val = <<[@[1] EXCEPT !.v = storeAt(@, object.out, object.kind)]>>,
            !.canonicalNow = IF object.from # <<>>
                               THEN <<storeAt(@[1], object.from[1], object.kind)>>
                               ELSE @,
            !.written = @ + 1]>>
  /\ UNCHANGED <<adapters, writing, mu, pc, call, local, ret, ops, lastOp, seen, tool>>

\* SchemaFeature is an int type and the catalog its constants 0..27; a
\* feature stands in this model as its String(), which for a value the
\* catalog does not list is "SchemaFeature(n)"
OtherFeatures == {"SchemaFeature(-1)", "SchemaFeature(28)"}

\* A.SupportsFeature(feature), asked of a built-in adapter
DoSupportsFeature(name, feature) ==
  /\ outcome = <<>>
  /\ outcome' = <<[op |-> "SupportsFeature", from |-> name, to |-> name,
                   feature |-> feature,
                   supported |-> SupportsFeature(adapters[name], feature),
                   canonical |-> None, output |-> None, err |-> <<>>,
                   given |-> <<>>, canonicalAfter |-> <<>>, toolAfter |-> tool,
                   canonicalNow |-> <<>>, objects |-> {}, written |-> 0]>>
  /\ UNCHANGED <<adapters, writing, mu, pc, call, local, ret, ops, lastOp, seen, tool>>

NextAdapters ==
  \/ outcome # <<>> /\ \E object \in outcome[1].objects : WriteOutput(object)
  \/ \E name \in BuiltIn, feature \in SchemaFeature \cup OtherFeatures :
       DoSupportsFeature(name, feature)
  \/ \E name \in BuiltIn : DoToCanonical(name)
  \/ \E name \in BuiltIn : DoFromCanonical(name)
  \/ \E name \in BuiltIn : DoRoundTrip(name)
  \/ \E fromFormat \in BuiltIn, toFormat \in BuiltIn : DoConvertDefault(fromFormat, toFormat)

SpecAdapters == InitAdapters /\ [][NextAdapters]_vars

\* C12: no adapter's ToCanonical or FromCanonical, and no Convert call,
\* mutates its input: when the call has returned, the raw tool handed in
\* and the canonical tool handed to FromCanonical are equal to what they
\* were before the call.
C12_InputsUnchanged ==
  outcome # <<>> =>
    /\ outcome[1].toolAfter = tool
    /\ outcome[1].canonicalAfter = outcome[1].given

\* C13: the output of every projection is freshly allocated: no mapping,
\* sequence or pointer reachable from the projected tool is the same object
\* as one reachable from the canonical tool it was projected from, and a
\* later store into the output leaves the canonical tool as it was.
C13_OutputFresh ==
  (outcome # <<>> /\ outcome[1].output.val # <<>>) =>
    /\ \A object \in outcome[1].objects : object.from = <<>>
    /\ outcome[1].canonicalNow = outcome[1].canonicalAfter

\* the projected tool holds what the raw tool holds: a tool handed in by
\* value equals the one handed back by pointer, and a bare function (or
\* function declaration) equals the tool that wraps it
StructurallyEqual(x, out) ==
  CASE x.t \in {"*OpenAIFunction", "OpenAIFunction"} -> out.v.Function = x.v
    [] x.t \in {"*GeminiFunctionDeclaration", "GeminiFunctionDeclaration"} ->
         out.v.FunctionDeclarations = <<x.v>>
    [] OTHER -> out.v = x.v

\* C14: for every built-in adapter A and every input x that A.ToCanonical
\* accepts, Convert(x, A, A) succeeds and its output is structurally equal
\* to x: nothing in x is lost or changed.
C14_SameAdapterLossless ==
  (outcome # <<>> /\ outcome[1].op = "Convert" /\ outcome[1].from = outcome[1].to
     /\ outcome[1].written = 0 /\ outcome[1].canonical.val # <<>>) =>
    /\ outcome[1].err = <<>>
    /\ outcome[1].output.val # <<>>
    /\ StructurallyEqual(tool[1], outcome[1].output.val[1])

\* a Meta that is nil and a Meta that is empty hold the same entries
MetaEntries(meta) == IF meta = <<>> THEN <<>> ELSE meta[1]

\* C15: for every adapter A and every input x that A lifts,
\* A.FromCanonical(A.ToCanonical(x)) re-emits the preserved side-channel
\* fields with their original values: OpenAI strict, Anthropic
\* cache_control, MCP title, meta, annotations and icons, the A2A skill id.
C15_SideChannelReappears ==
  (outcome # <<>> /\ outcome[1].op = "RoundTrip" /\ outcome[1].canonical.val # <<>>
     /\ outcome[1].written = 0) =>
    /\ outcome[1].output.val # <<>>
    /\ LET x == tool[1]
           out == outcome[1].output.val[1].v
       IN  CASE outcome[1].from = "openai" ->
                  out.Function.Strict =
                    IF x.t \in {"*OpenAITool", "OpenAITool"}
                      THEN x.v.Function.Strict ELSE x.v.Strict
             [] outcome[1].from = "anthropic" -> out.CacheControl = x.v.CacheControl
             [] outcome[1].from = "mcp" ->
                  /\ out.Title = x.v.Title
                  /\ MetaEntries(out.Meta) = MetaEntries(x.v.Meta)
                  /\ out.Annotations = x.v.Annotations
                  /\ out.Icons = x.v.Icons
             [] outcome[1].from = "a2a" -> out.ID = x.v.ID
             [] OTHER -> TRUE


(***************************************************************************)
(* The warnings of Convert, each against the schema it was computed from.  *)
(***************************************************************************)
\* the warning is about a node of the tool: some node at the warning's
\* JSON Pointer uses the warning's feature
AtUse(ct, w) ==
  LET nodes == ToolNodes(ct)
  IN  \E j \in 1..Len(nodes) :
        nodes[j].path = w.Path /\ featureUsage(nodes[j].node, w.Feature)

\* C16: every warning Convert returns names a catalog feature that some node
\* of the canonical tool's input or output schema uses at the warning's path
\* and that the target adapter does not support; so a conversion to a target
\* that supports every feature the tool uses returns no warning.
C16_WarningsSound ==
  (outcome # <<>> /\ outcome[1].res.result # <<>>) =>
    LET o == outcome[1]
        ct == o.res.canonical.val[1]
        warnings == o.res.result[1].Warnings
    IN  /\ \A w \in BagToSet(warnings) :
             /\ w.Feature \in SchemaFeature
             /\ ~SupportsFeature(adapters[o.toFormat], w.Feature)
             /\ AtUse(ct, w)
        /\ (\A f \in SchemaFeature : Uses(ct, f) => SupportsFeature(adapters[o.toFormat], f))
             => warnings = EmptyBag


\* the JSON Pointers of the nodes of the tool that use a catalog feature the
\* adapter does not support
LossPointers(ct, target) ==
  LET nodes == ToolNodes(ct)
  IN  {nodes[j].path : j \in {k \in 1..Len(nodes) :
         \E f \in SchemaFeature :
           featureUsage(nodes[k].node, f) /\ ~SupportsFeature(target, f)}}

\* C17: the paths of the warnings Convert returns are exactly the RFC 6901
\* JSON Pointers, from the schema root "", of the nodes that use a feature
\* the target does not support: p/properties/k, p/items, p/$defs/k,
\* p/anyOf/i, p/oneOf/i, p/allOf/i and p/not below a node at p, for every
\* name k, the empty name included, and every index i.
C17_PathsArePointers ==
  (outcome # <<>> /\ outcome[1].res.result # <<>>) =>
    LET o == outcome[1]
    IN  {w.Path : w \in BagToSet(o.res.result[1].Warnings)}
          = LossPointers(o.res.canonical.val[1], adapters[o.toFormat])


(***************************************************************************)
(* The errors of the adapters.                                             *)
(***************************************************************************)
\* CanonicalTool.Validate accepts the tool: a name and an input schema
Valid(c) == c.Name # "" /\ c.InputSchema # <<>>

\* C18: FromCanonical, of every built-in adapter, given a canonical tool
\* whose name is empty or whose input schema is absent, returns no output
\* and an error that is a *ConversionError.
C18_InvalidRejected ==
  (/\ outcome # <<>>
   /\ outcome[1].op = "FromCanonical"
   /\ outcome[1].canonical.val # <<>>
   /\ ~Valid(outcome[1].canonical.val[1]))
    => /\ outcome[1].output.val = <<>>
       /\ outcome[1].output.err # <<>>
       /\ outcome[1].output.err[1].type = "*ConversionError"


\* C19: when ToCanonical of a built-in adapter fails (on a nil input, an
\* input of a type it does not recognize, or one missing a required field
\* such as the name or the skill id), it returns no canonical tool and its
\* error is a *ConversionError whose Adapter is the adapter's name and
\* whose Direction is "to_canonical".
C19_LiftErrorsTyped ==
  (/\ outcome # <<>>
   /\ outcome[1].op = "ToCanonical"
   /\ outcome[1].canonical.err # <<>>)
    => /\ outcome[1].canonical.val = <<>>
       /\ outcome[1].canonical.err[1].type = "*ConversionError"
       /\ outcome[1].canonical.err[1].Adapter = outcome[1].from
       /\ outcome[1].canonical.err[1].Direction = "to_canonical"


(***************************************************************************)
(* SupportsFeature outside the catalog.                                    *)
(***************************************************************************)
\* C20: SupportsFeature of every built-in adapter answers false for a
\* feature value that is not one of the features of the catalog.
C20_UnknownUnsupported ==
  (/\ outcome # <<>>
   /\ outcome[1].op = "SupportsFeature"
   /\ outcome[1].feature \notin SchemaFeature)
    => ~outcome[1].supported


(***************************************************************************)
(* Schemas alone: schemaFromMap, DeepCopy and ToMap applied to one schema  *)
(* and, after a lift, the schema part of each adapter's projection.  The   *)
(* input is a map-form schema whose numeric keyword holds a Go number of   *)
(* some type, or a canonical schema.                                       *)
(***************************************************************************)
GoSigned   == {"int", "int8", "int16", "int32", "int64"}
GoUnsigned == {"uint", "uint8", "uint16", "uint32", "uint64"}
GoFloats   == {"float32", "float64"}

\* Go numbers as they sit in a map[string]any; a float is held in halves
Numbers ==
       {[t |-> t, v |-> v] : t \in GoSigned, v \in {0, 1, -2}}
  \cup {[t |-> t, v |-> v] : t \in GoUnsigned, v \in {0, 1}}
  \cup {[t |-> t, v |-> v] : t \in GoFloats, v \in {0, 3, -3, 4}}

FloatKeywords == {"multipleOf", "minimum", "maximum"}
IntKeywords ==
  {"minLength", "maxLength", "minItems", "maxItems", "minProperties", "maxProperties"}

\* the field of JSONSchema that holds a numeric keyword
FieldOf(k) ==
  CASE k = "multipleOf"    -> "MultipleOf"
    [] k = "minimum"       -> "Minimum"
    [] k = "maximum"       -> "Maximum"
    [] k = "minLength"     -> "MinLength"
    [] k = "maxLength"     -> "MaxLength"
    [] k = "minItems"      -> "MinItems"
    [] k = "maxItems"      -> "MaxItems"
    [] k = "minProperties" -> "MinProperties"
    [] k = "maxProperties" -> "MaxProperties"

\* map-form schemas: no numeric keyword, or one, at the root or in a property
MapSchemas ==
  LET leaves ==
             {"type" :> StringV("number")}
        \cup {("type" :> StringV("number")) @@ (k :> x) :
                k \in FloatKeywords \cup IntKeywords,
                x \in Numbers \cup {StringV("0")}}
  IN  leaves
        \cup {("type" :> StringV("object"))
                @@ ("properties" :> MapV("a" :> MapV(leaf))) : leaf \in leaves}

\* the schema part of each projection that emits a schema
Projecting == {"mcp", "openai", "anthropic", "gemini"}

ProjectSchema(name, schema) ==
  CASE name = "mcp"       -> ToMap(schema)
    [] name = "openai"    -> ToMap(filterOpenAISchema(schema))
    [] name = "anthropic" -> ToMap(filterAnthropicSchema(schema))
    [] name = "gemini"    -> ToMap(filterGeminiSchema(schema))

\* what has been done to the schema so far
Done(op) ==
  [op |-> op, schema |-> <<>>, target |-> "", map |-> <<>>, copy |-> <<>>,
   sourceNow |-> <<>>, objects |-> {}, written |-> 0]

IsMapForm == tool # <<>> /\ tool[1].t = "map[string]any"

\* schemaFromMap(tool)
DoSchemaFromMap ==
  /\ outcome = <<>>
  /\ IsMapForm
  /\ outcome' = <<[Done("schemaFromMap") EXCEPT !.schema = <<schemaFromMap(tool[1].v)>>]>>
  /\ UNCHANGED <<adapters, writing, mu, pc, call, local, ret, ops, lastOp, seen, tool>>

\* the schema that was lifted, projected as the adapter projects it
DoProject(name) ==
  /\ outcome # <<>>
  /\ outcome[1].op = "schemaFromMap"
  /\ outcome' = <<[outcome[1] EXCEPT
                     !.op = "project", !.target = name,
                     !.map = <<ProjectSchema(name, outcome[1].schema[1])>>]>>
  /\ UNCHANGED <<adapters, writing, mu, pc, call, local, ret, ops, lastOp, seen, tool>>


\* canonical schemas: a leaf that uses one keyword or none, bare or held by
\* one parent, and schemas whose const, default, enum or examples hold a
\* map or a slice
ConstSchema == [Plain EXCEPT !.Const = <<SliceAnyV(<<StringV("c")>>)>>]

EnumSchema ==
  [ObjectSchema EXCEPT !.Enum = <<MapV("k" :> StringV("v"))>>,
                       !.Examples = <<SliceAnyV(<<StringV("e")>>)>>]

CanonicalSchemas ==
       {Nest(spine, Leaf(f)) :
          spine \in {sp \in Spines : Len(sp) <= 1},
          f \in (SchemaFeature \ Structural) \cup {""}}
  \cup {RichSchema, PatternSchema, DefaultSchema, ConstSchema, EnumSchema}

IsCanonicalSchema == tool # <<>> /\ tool[1].t = "*JSONSchema"

\* the objects of s.DeepCopy(): the node, its pointers, slices and maps, and
\* the maps and slices held by its any-typed values.  The copy has the
\* shape of s, so an object is at the same path in both; from is that path
\* when DeepCopy assigned the object instead of copying it.
RECURSIVE copyObjects(_, _)
copyObjects(s, path) ==
  LET scalar(field, kind) ==
        IF s[field] # <<>> THEN {Object(path \o <<field>>, kind, <<>>)} ELSE {}
      held(x, at) ==
        IF x.t = "map[string]any" THEN {Object(at \o <<"v">>, "map", <<at \o <<"v">>>>)}
        ELSE IF x.t = "[]any" THEN {Object(at \o <<"v">>, "anys", <<at \o <<"v">>>>)}
        ELSE {}
      any(field) ==
        IF s[field] # <<>> THEN held(s[field][1], path \o <<field, 1>>) ELSE {}
      anys(field) ==
        IF Len(s[field]) > 0
          THEN {Object(path \o <<field>>, "anys", <<>>)}
               \cup UNION {held(s[field][i], path \o <<field, i>>) : i \in 1..Len(s[field])}
          ELSE {}
      named(field) ==
        IF DOMAIN s[field] # {}
          THEN {Object(path \o <<field>>, "schemas", <<>>)}
               \cup UNION {copyObjects(s[field][k], path \o <<field, k>>) :
                             k \in DOMAIN s[field]}
          ELSE {}
      single(field) ==
        IF s[field] # <<>> THEN copyObjects(s[field][1], path \o <<field, 1>>) ELSE {}
      listed(field) ==
        IF Len(s[field]) > 0
          THEN {Object(path \o <<field>>, "nodes", <<>>)}
               \cup UNION {copyObjects(s[field][i], path \o <<field, i>>) :
                             i \in 1..Len(s[field])}
          ELSE {}
  IN       {Object(path, "node", <<>>)}
      \cup any("Const") \cup any("Default")
      \cup UNION {scalar(FieldOf(k), "number") : k \in FloatKeywords \cup IntKeywords}
      \cup UNION {scalar(f, "flag") :
                    f \in {"UniqueItems", "AdditionalProperties", "Nullable",
                           "Deprecated", "ReadOnly", "WriteOnly"}}
      \cup (IF Len(s.Required) > 0
              THEN {Object(path \o <<"Required">>, "strings", <<>>)} ELSE {})
      \cup anys("Enum") \cup anys("Examples")
      \cup named("Properties") \cup named("Defs")
      \cup single("Items") \cup single("Not")
      \cup listed("AnyOf") \cup listed("OneOf") \cup listed("AllOf")

\* tool.DeepCopy()
DoDeepCopy ==
  /\ outcome = <<>>
  /\ IsCanonicalSchema
  /\ outcome' = <<[Done("DeepCopy") EXCEPT
                     !.copy = <<DeepCopy(tool[1].v)>>,
                     !.sourceNow = <<tool[1].v>>,
                     !.objects = copyObjects(tool[1].v, <<>>)]>>
  /\ UNCHANGED <<adapters, writing, mu, pc, call, local, ret, ops, lastOp, seen, tool>>

\* the caller stores into an object of the copy
Mutate(object) ==
  /\ outcome # <<>>
  /\ outcome[1].op = "DeepCopy"
  /\ outcome[1].written < MaxWrites
  /\ object \in outcome[1].objects
  /\ outcome' =
       <<[outcome[1] EXCEPT
            !.copy = <<storeAt(@[1], object.out, object.kind)>>,
            !.sourceNow = IF object.from # <<>>
                            THEN <<storeAt(@[1], object.from[1], object.kind)>>
                            ELSE @,
            !.written = @ + 1]>>
  /\ UNCHANGED <<adapters, writing, mu, pc, call, local, ret, ops, lastOp, seen, tool>>

\* tool.ToMap()
DoToMap ==
  /\ outcome = <<>>
  /\ IsCanonicalSchema
  /\ outcome' = <<[Done("ToMap") EXCEPT !.schema = <<tool[1].v>>,
                                        !.map = <<ToMap(tool[1].v)>>]>>
  /\ UNCHANGED <<adapters, writing, mu, pc, call, local, ret, ops, lastOp, seen, tool>>

InitSchema ==
  /\ IdleInit
  /\ adapters = DefaultRegistry
  /\ tool \in {<<MapV(m)>> : m \in MapSchemas}
              \cup {<<[t |-> "*JSONSchema", v |-> s]>> : s \in CanonicalSchemas}
  /\ outcome = <<>>

NextSchema ==
  \/ DoSchemaFromMap
  \/ \E name \in Projecting : DoProject(name)
  \/ DoDeepCopy
  \/ outcome # <<>> /\ \E object \in outcome[1].objects : Mutate(object)
  \/ DoToMap

SpecSchema == InitSchema /\ [][NextSchema]_vars


(***************************************************************************)
(* Properties of the schema functions.                                     *)
(***************************************************************************)
\* the input node, the lifted node and the projected node at the root and,
\* where the input has that property, at /properties/a
NodesAt(o) ==
  LET m == tool[1].v
      root == [in |-> m, lifted |-> o.schema[1], out |-> o.map[1]]
  IN  IF "properties" \in DOMAIN m
        THEN {root, [in |-> m["properties"].v["a"].v,
                     lifted |-> o.schema[1].Properties["a"],
                     out |-> o.map[1]["properties"].v["a"].v]}
        ELSE {root}

\* C21: through a lift and any projection that emits a schema, a source
\* node carrying minimum 0, the 0 of any Go integer or floating-point type,
\* has minimum present in the canonical schema and minimum: 0 in the
\* projected schema, and a source node without minimum has no minimum in
\* the canonical schema and no minimum key in the projected schema.
C21_AbsentIsNotZero ==
  (outcome # <<>> /\ outcome[1].op = "project") =>
    \A n \in NodesAt(outcome[1]) :
      /\ ("minimum" \in DOMAIN n.in
            /\ n.in["minimum"].t \in GoSigned \cup GoUnsigned \cup GoFloats
            /\ n.in["minimum"].v = 0)
           => /\ n.lifted.Minimum = <<0>>
              /\ "minimum" \in DOMAIN n.out
              /\ n.out["minimum"] = Float64V(0)
      /\ "minimum" \notin DOMAIN n.in
           => /\ n.lifted.Minimum = <<>>
              /\ "minimum" \notin DOMAIN n.out


\* n is the float held as h halves truncated toward zero
Truncated(h, n) ==
  LET abs(x) == IF x >= 0 THEN x ELSE -x
  IN  2 * abs(n) <= abs(h) /\ abs(h) < 2 * abs(n) + 2 /\ n * h >= 0

\* C27: schemaFromMap takes a numeric keyword whose value is of any Go
\* integer or floating-point type: multipleOf, minimum and maximum get the
\* value as a float64, and minLength, maxLength, minItems, maxItems,
\* minProperties and maxProperties get an integer value as it is and a
\* floating-point value truncated toward zero.
C27_NumbersCoerced ==
  (outcome # <<>> /\ outcome[1].op = "project") =>
    \A n \in NodesAt(outcome[1]) :
      \A k \in (FloatKeywords \cup IntKeywords) \cap DOMAIN n.in :
        LET x == n.in[k]
            got == n.lifted[FieldOf(k)]
        IN  x.t \in GoSigned \cup GoUnsigned \cup GoFloats =>
              /\ got # <<>>
              /\ k \in FloatKeywords =>
                   got[1] = IF x.t \in GoFloats THEN x.v ELSE 2 * x.v
              /\ (k \in IntKeywords /\ x.t \notin GoFloats) => got[1] = x.v
              /\ (k \in IntKeywords /\ x.t \in GoFloats) => Truncated(x.v, got[1])


\* C22: s.DeepCopy() shares no object with s: after a store into any object
\* of the copy (a nested schema, a properties or $defs map, a required, enum
\* or examples slice, an optional scalar, or the map or slice that a const,
\* a default, an enum element or an example holds) s is as it was.
C22_CopyShares ==
  (outcome # <<>> /\ outcome[1].op = "DeepCopy") =>
    /\ outcome[1].sourceNow = <<tool[1].v>>
    /\ \A object \in outcome[1].objects : object.from = <<>>


\* the keywords of a schema, each with the field that holds it and the way
\* the field is absent or empty: the empty string, a nil pointer or
\* interface, a slice or a map without elements
Keywords ==
  [type |-> <<"Type", "string">>, title |-> <<"Title", "string">>,
   description |-> <<"Description", "string">>, pattern |-> <<"Pattern", "string">>,
   format |-> <<"Format", "string">>, const |-> <<"Const", "nil">>,
   default |-> <<"Default", "nil">>, examples |-> <<"Examples", "len">>,
   multipleOf |-> <<"MultipleOf", "nil">>, minimum |-> <<"Minimum", "nil">>,
   maximum |-> <<"Maximum", "nil">>, minLength |-> <<"MinLength", "nil">>,
   maxLength |-> <<"MaxLength", "nil">>, minItems |-> <<"MinItems", "nil">>,
   maxItems |-> <<"MaxItems", "nil">>, minProperties |-> <<"MinProperties", "nil">>,
   maxProperties |-> <<"MaxProperties", "nil">>, uniqueItems |-> <<"UniqueItems", "nil">>,
   additionalProperties |-> <<"AdditionalProperties", "nil">>,
   nullable |-> <<"Nullable", "nil">>, deprecated |-> <<"Deprecated", "nil">>,
   readOnly |-> <<"ReadOnly", "nil">>, writeOnly |-> <<"WriteOnly", "nil">>,
   required |-> <<"Required", "len">>, enum |-> <<"Enum", "len">>,
   properties |-> <<"Properties", "map">>, items |-> <<"Items", "nil">>,
   anyOf |-> <<"AnyOf", "len">>, oneOf |-> <<"OneOf", "len">>,
   allOf |-> <<"AllOf", "len">>, not |-> <<"Not", "nil">>]
  @@ ("$ref" :> <<"Ref", "string">>) @@ ("$defs" :> <<"Defs", "map">>)

\* the field of the keyword is present and not empty
Present(s, k) ==
  LET x == s[Keywords[k][1]]
  IN  CASE Keywords[k][2] = "string" -> x # ""
        [] Keywords[k][2] = "nil"    -> x # <<>>
        [] Keywords[k][2] = "len"    -> Len(x) > 0
        [] Keywords[k][2] = "map"    -> Cardinality(DOMAIN x) > 0

\* the keys of m are the present keywords of s, here and in every sub-schema
RECURSIVE KeysAgree(_, _)
KeysAgree(s, m) ==
  /\ DOMAIN m = {k \in DOMAIN Keywords : Present(s, k)}
  /\ \A kw \in {"properties", "$defs"} \cap DOMAIN m :
       /\ DOMAIN m[kw].v = DOMAIN s[Keywords[kw][1]]
       /\ \A n \in DOMAIN m[kw].v : KeysAgree(s[Keywords[kw][1]][n], m[kw].v[n].v)
  /\ \A kw \in {"items", "not"} \cap DOMAIN m : KeysAgree(s[Keywords[kw][1]][1], m[kw].v)
  /\ \A kw \in {"anyOf", "oneOf", "allOf"} \cap DOMAIN m :
       /\ Len(m[kw].v) = Len(s[Keywords[kw][1]])
       /\ \A i \in 1..Len(m[kw].v) : KeysAgree(s[Keywords[kw][1]][i], m[kw].v[i].v)

\* C23: for every canonical schema s, the map s.ToMap() has the key of a
\* keyword exactly when the field of s that holds the keyword is present
\* and not empty (a non-empty string, a non-nil pointer, interface or
\* sub-schema, a slice or map with an element), and so has the map of every
\* sub-schema, at every nesting level.
C23_KeysArePresentFields ==
  (outcome # <<>> /\ outcome[1].op = "ToMap") =>
    KeysAgree(outcome[1].schema[1], outcome[1].map[1])

\* ToMap was applied to a schema whose property holds minLength 0, a field
\* that is present with a zero value
C23_Witness ==
  /\ outcome # <<>>
  /\ outcome[1].op = "ToMap"
  /\ outcome[1].schema[1].Properties = "a" :> Leaf("minLength")
  /\ "minLength" \in DOMAIN outcome[1].map[1]["properties"].v["a"].v
  /\ "title" \notin DOMAIN outcome[1].map[1]["properties"].v["a"].v


(***************************************************************************)
(* The Gemini wrapper form.                                                *)
(***************************************************************************)
IsWrapper(input) == input # <<>> /\ input[1].t \in {"*GeminiTool", "GeminiTool"}

\* C24: Gemini ToCanonical, given the wrapper form, returns a canonical
\* tool only when the wrapper holds exactly one function declaration, the
\* tool of that declaration; given a wrapper with no declaration or with
\* more than one it returns no tool and a *ConversionError with Adapter
\* "gemini" and Direction "to_canonical".
C24_OneDeclaration ==
  (/\ outcome # <<>>
   /\ outcome[1].op = "ToCanonical"
   /\ outcome[1].from = "gemini"
   /\ IsWrapper(tool))
    => LET decls == tool[1].v.FunctionDeclarations
           got == outcome[1].canonical
       IN  /\ (Len(decls) = 1 /\ decls[1].Name # "") =>
                 /\ got.err = <<>>
                 /\ got.val # <<>>
                 /\ got.val[1].Name = decls[1].Name
           /\ Len(decls) # 1 =>
                 /\ got.val = <<>>
                 /\ got.err # <<>>
                 /\ got.err[1].type = "*ConversionError"
                 /\ got.err[1].Adapter = "gemini"
                 /\ got.err[1].Direction = "to_canonical"

\* a wrapper with two declarations was refused
C24_Witness ==
  /\ outcome # <<>>
  /\ outcome[1].op = "ToCanonical"
  /\ outcome[1].from = "gemini"
  /\ IsWrapper(tool)
  /\ Len(tool[1].v.FunctionDeclarations) = 2
  /\ outcome[1].canonical.err # <<>>


(***************************************************************************)
(* What the projections make of the canonical tool's fields.               *)
(***************************************************************************)
\* the parts that are set
SetParts(parts) == SelectSeq(parts, LAMBDA x : x # "")

\* C25: the skill that A2A FromCanonical returns has as id the entry
\* source_meta["skillId"] when the canonical tool has that entry, and
\* otherwise the namespace, the name and the version of the tool, those
\* that are set, joined by ":".
C25_SkillID ==
  (/\ outcome # <<>>
   /\ outcome[1].op = "FromCanonical"
   /\ outcome[1].to = "a2a"
   /\ outcome[1].output.val # <<>>)
    => LET c == outcome[1].canonical.val[1]
           id == outcome[1].output.val[1].v.ID
       IN  IF "skillId" \in DOMAIN c.SourceMeta
             THEN [t |-> "string", v |-> id] = c.SourceMeta["skillId"]
             ELSE id = Join(SetParts(<<c.Namespace, c.Name, c.Version>>), ":")


\* the description of a projected tool
DescriptionOf(name, out) ==
  CASE name = "openai" -> out.v.Function.Description
    [] name = "gemini" -> out.v.FunctionDeclarations[1].Description
    [] OTHER           -> out.v.Description

\* C26: the tool that FromCanonical of the MCP, OpenAI, Anthropic, Gemini
\* or A2A adapter returns for a canonical tool with an empty description
\* has as description the tool's summary when that is set, else its
\* display name, the empty string when neither is set.
C26_DescriptionFallback ==
  (/\ outcome # <<>>
   /\ outcome[1].op = "FromCanonical"
   /\ outcome[1].written = 0
   /\ outcome[1].output.val # <<>>
   /\ outcome[1].canonical.val[1].Description = "")
    => LET c == outcome[1].canonical.val[1]
       IN  DescriptionOf(outcome[1].to, outcome[1].output.val[1])
             = IF c.Summary # "" THEN c.Summary ELSE c.DisplayName


(***************************************************************************)
(* The warnings of Convert, one against the other.                         *)
(***************************************************************************)
\* C30: in the result of Convert no two warnings have the same feature and
\* the same path: each node of the input and of the output schema that uses
\* an unsupported feature yields one warning, and the warnings of two
\* different nodes differ in feature or in path.
C30_WarningNamesOneNode ==
  (outcome # <<>> /\ outcome[1].res.result # <<>>) =>
    LET warnings == outcome[1].res.result[1].Warnings
    IN  \A w \in BagToSet(warnings) : CopiesIn(w, warnings) = 1


(***************************************************************************)
(* The warnings of Convert against the schemas of the projected tool.      *)
(***************************************************************************)
\* the map-form schemas of a projected tool, nil where it has none
ProjectedInput(out) ==
  CASE out.t = "*OpenAITool"    -> <<out.v.Function.Parameters[1]>>
    [] out.t = "*AnthropicTool" -> <<out.v.InputSchema[1]>>
    [] out.t = "*GeminiTool"    -> <<out.v.FunctionDeclarations[1].Parameters[1]>>
    [] out.t = "*model.Tool"    ->
         IF out.v.InputSchema # <<>> THEN <<out.v.InputSchema[1].v>> ELSE <<>>
    [] OTHER                    -> <<>>

ProjectedOutput(out) ==
  IF out.t = "*model.Tool" /\ out.v.OutputSchema # <<>>
    THEN <<out.v.OutputSchema[1].v>> ELSE <<>>

\* every keyword the schema uses, at the node at pointer p or below it, is
\* in the projected map m at the same place, or W holds a warning for it at
\* its pointer, or the node lies below a pointer that W holds a warning for
RECURSIVE Kept(_, _, _, _, _)
Kept(schema, m, p, below, W) ==
  LET has(k) == m # <<>> /\ k \in DOMAIN m[1]
      under == below \/ \E w \in W : w.Path = p
      named(F, kw) ==
        \A k \in DOMAIN F :
          Kept(F[k],
               IF has(kw) /\ k \in DOMAIN m[1][kw].v THEN <<m[1][kw].v[k].v>> ELSE <<>>,
               p \o "/" \o kw \o "/" \o k, under, W)
      single(x, kw) ==
        x # <<>> => Kept(x[1], IF has(kw) THEN <<m[1][kw].v>> ELSE <<>>,
                         p \o "/" \o kw, under, W)
      listed(L, kw) ==
        \A i \in 1..Len(L) :
          Kept(L[i],
               IF has(kw) /\ i <= Len(m[1][kw].v) THEN <<m[1][kw].v[i].v>> ELSE <<>>,
               p \o "/" \o kw \o "/" \o indexPath(i - 1), under, W)
  IN  /\ \A f \in SchemaFeature :
           featureUsage(schema, f) =>
             \/ has(f)
             \/ \E w \in W : w.Feature = f /\ w.Path = p
             \/ below
      /\ named(schema.Properties, "properties")
      /\ single(schema.Items, "items")
      /\ named(schema.Defs, "$defs")
      /\ listed(schema.AnyOf, "anyOf")
      /\ listed(schema.OneOf, "oneOf")
      /\ listed(schema.AllOf, "allOf")
      /\ single(schema.Not, "not")

\* C29: for every built-in target and every canonical tool that Convert
\* projects, each catalog keyword used at a node of the input or of the
\* output schema is in the projected tool's schema at the same path, or the
\* result holds a warning for that keyword at that path, or it holds a
\* warning at the path of an ancestor of the node.
C29_NothingDroppedSilently ==
  (/\ outcome # <<>>
   /\ outcome[1].toFormat \in BuiltIn
   /\ outcome[1].res.result # <<>>)
    => LET ct == outcome[1].res.canonical.val[1]
           out == outcome[1].res.output.val[1]
           W == BagToSet(outcome[1].res.result[1].Warnings)
       IN  /\ ct.InputSchema # <<>> =>
                Kept(ct.InputSchema[1], ProjectedInput(out), "", FALSE, W)
           /\ ct.OutputSchema # <<>> =>
                Kept(ct.OutputSchema[1], ProjectedOutput(out), "", FALSE, W)


(***************************************************************************)
(* Convert under concurrent calls.  Two goroutines call Convert on         *)
(* DefaultRegistry, each call given the same tool value; nothing writes    *)
(* the registry.  A goroutine stands before source.ToCanonical, before     *)
(* target.FromCanonical, or inside the stores that MCPAdapter.FromCanonical*)
(* makes into tool.Meta.  The Meta map of an MCP tool is one object: the   *)
(* canonical tool lifted from it holds it as SourceMeta["meta"], and the   *)
(* MCP projection takes it from there as the Meta of its output.           *)
(***************************************************************************)
SharedInputs ==
       {<<[t |-> "*model.Tool", v |-> [MCPBase EXCEPT !.Meta = meta]]>> : meta \in Metas}
  \cup {<<[t |-> "OpenAITool", v |-> [OpenAITool EXCEPT !.Function.Name = "t"]]>>}

SharedFrom == {"mcp", "openai"}
SharedTo == {"mcp", "openai", "nope"}

\* ToCanonical of adapter a reads the Meta map of the raw tool
ReadsMeta(a, raw) ==
  /\ a.impl = "MCPAdapter"
  /\ raw # <<>>
  /\ raw[1].t \in {"*model.Tool", "model.Tool", "*mcp.Tool", "mcp.Tool"}
  /\ raw[1].v.Meta # <<>>

\* the canonical tool ct, lifted by a from the raw tool, holds the raw
\* tool's Meta map
HoldsMeta(a, raw, ct) ==
  ReadsMeta(a, raw) /\ ct # <<>> /\ "meta" \in DOMAIN ct[1].SourceMeta

\* FromCanonical of adapter a stores into the map that ct holds
WritesMeta(a, ct) ==
  /\ a.impl = "MCPAdapter"
  /\ ct # <<>>
  /\ ct[1].Name # ""
  /\ Index(ct[1].SourceMeta, "meta").t \in {"mcp.Meta", "map[string]any"}
  /\ DOMAIN metaStores(ct[1]) # {}

\* Convert from the call of target.FromCanonical on
convertFrom(source, target, canonical, fromFormat, toFormat) ==
  LET warnings == detectFeatureLoss(canonical.val[1], source, target)
      output == FromCanonical(target, canonical.val)
      none == [result |-> <<>>, err |-> <<>>, panic |-> FALSE,
               calls |-> <<Called(source, "ToCanonical"), Called(target, "FromCanonical")>>,
               canonical |-> canonical, output |-> output, computed |-> warnings]
  IN  IF output.err # <<>>
        THEN [none EXCEPT
                !.err = <<ConversionError(toFormat, "from_canonical", output.err[1])>>]
        ELSE [none EXCEPT !.result = <<[Tool |-> output.val, Warnings |-> warnings]>>]

\* what a Convert call leaves for its caller: racy, when the call read the
\* Meta map while another call was free to store into it, or stored into
\* it while another call was free to read it; fatal, when the runtime
\* stopped the program at an access of the map during a store
ConvertReturned(p, c, given, result, err, racy, fatal) ==
  [op |-> "Convert", name |-> c.name, toFormat |-> c.toFormat, by |-> p,
   given |-> given, result |-> result, err |-> err, racy |-> racy, fatal |-> fatal]

InitShared ==
  /\ IdleInit
  /\ adapters = DefaultRegistry
  /\ tool \in SharedInputs
  /\ outcome = <<>>

\* goroutine p calls r.Convert(tool, fromFormat, toFormat): the two Get
\* calls, which nothing interferes with
ConvertCall(p, fromFormat, toFormat) ==
  /\ pc[p] = "idle"
  /\ ops[p] < MaxOps
  /\ ops' = [ops EXCEPT ![p] = @ + 1]
  /\ LET c == [op |-> "Convert", name |-> fromFormat, toFormat |-> toFormat,
               adapter |-> <<>>]
         source == Get(adapters, fromFormat)
         target == Get(adapters, toFormat)
         err == IF source.err # <<>> THEN source.err ELSE target.err
     IN  /\ call' = [call EXCEPT ![p] = <<c>>]
         /\ IF err # <<>>
              THEN /\ ret' = [ret EXCEPT ![p] =
                                <<ConvertReturned(p, c, tool, <<>>, err, FALSE, FALSE)>>]
                   /\ UNCHANGED <<pc, local>>
              ELSE /\ pc' = [pc EXCEPT ![p] = "ToCanonical"]
                   /\ local' = [local EXCEPT ![p] =
                                  <<[given |-> tool, source |-> source.val[1],
                                     target |-> target.val[1], canonical |-> None,
                                     racy |-> FALSE]>>]
                   /\ ret' = [ret EXCEPT ![p] = <<>>]
  /\ UNCHANGED <<adapters, writing, mu, lastOp, seen, tool, outcome>>

\* the goroutines other than p that stand inside a store into tool.Meta
Storing(p) == {q \in Procs \ {p} : pc[q] = "Store"}

\* canonical, err := source.ToCanonical(tool).  A read of the Meta map that
\* no synchronisation orders with a store of another call sees the map as
\* it was when the call began or as it is now.
ConvertLift(p) ==
  /\ pc[p] = "ToCanonical"
  /\ LET c == call[p][1]
         l == local[p][1]
         reads == ReadsMeta(l.source, tool)
         racy == l.racy \/ (reads /\ Storing(p) # {})
     IN  \E read \in IF reads /\ racy THEN {tool, l.given} ELSE {tool} :
           \E canonical \in {ToCanonical(l.source, read)} :
             IF canonical.err # <<>>
               THEN /\ ret' = [ret EXCEPT ![p] =
                                 <<ConvertReturned(p, c, l.given, <<>>,
                                     <<ConversionError(c.name, "to_canonical",
                                                       canonical.err[1])>>,
                                     racy, FALSE)>>]
                    /\ pc' = [pc EXCEPT ![p] = "idle"]
                    /\ UNCHANGED local
               ELSE /\ local' = [local EXCEPT ![p][1].canonical = canonical,
                                              ![p][1].racy = racy]
                    /\ pc' = [pc EXCEPT ![p] = "FromCanonical"]
                    /\ UNCHANGED ret
  /\ UNCHANGED <<adapters, writing, mu, call, ops, lastOp, seen, tool, outcome>>

\* the canonical tool of goroutine p as it is now: its SourceMeta["meta"]
\* is the Meta map of the raw tool, with whatever has been stored into it
CanonicalNow(p) ==
  LET l == local[p][1]
  IN  IF HoldsMeta(l.source, tool, l.canonical.val)
        THEN [l.canonical EXCEPT !.val[1].SourceMeta["meta"].v = tool[1].v.Meta[1]]
        ELSE l.canonical

\* detectFeatureLoss and output, err := target.FromCanonical(canonical), up
\* to the first store into tool.Meta if it makes one, else to the return
ConvertProject(p) ==
  /\ pc[p] = "FromCanonical"
  /\ LET c == call[p][1]
         l == local[p][1]
     IN  \E canonical \in {CanonicalNow(p)} :
           IF HoldsMeta(l.source, tool, canonical.val) /\ WritesMeta(l.target, canonical.val)
             THEN /\ pc' = [pc EXCEPT ![p] = "Store"]
                  /\ UNCHANGED <<ret, local>>
             ELSE \E res \in {convertFrom(l.source, l.target, canonical,
                                          c.name, c.toFormat)} :
                    /\ ret' = [ret EXCEPT ![p] =
                                 <<ConvertReturned(p, c, l.given, res.result, res.err,
                                                   l.racy, FALSE)>>]
                    /\ pc' = [pc EXCEPT ![p] = "idle"]
                    /\ UNCHANGED local
  /\ UNCHANGED <<adapters, writing, mu, call, ops, lastOp, seen, tool, outcome>>

\* the goroutines other than p whose call reads tool.Meta and has not
\* returned
Readers(p) ==
  {q \in Procs \ {p} :
     /\ pc[q] \in {"ToCanonical", "FromCanonical", "Store"}
     /\ ReadsMeta(local[q][1].source, tool)}

\* the stores tool.Meta["summary"] = ct.Summary and the like, and the
\* return of Convert
ConvertStore(p) ==
  /\ pc[p] = "Store"
  /\ LET c == call[p][1]
         l == local[p][1]
     IN  \E canonical \in {CanonicalNow(p)} :
           \E res \in {convertFrom(l.source, l.target, canonical, c.name, c.toFormat)} :
             /\ tool' = ToCanonicalShares(l.source, tool,
                                          FromCanonicalLeaves(l.target, canonical.val))
             /\ ret' = [ret EXCEPT ![p] =
                          <<ConvertReturned(p, c, l.given, res.result, res.err,
                                            l.racy \/ Readers(p) # {}, FALSE)>>]
             /\ local' = [q \in Procs |->
                            IF q \in Readers(p) THEN <<[local[q][1] EXCEPT !.racy = TRUE]>>
                            ELSE local[q]]
             /\ pc' = [pc EXCEPT ![p] = "idle"]
  /\ UNCHANGED <<adapters, writing, mu, call, ops, lastOp, seen, outcome>>

\* The Go runtime finds the map being written when goroutine p reads it or
\* writes it, and throws "concurrent map read and map write" or "concurrent
\* map writes": the program ends and no call returns.
ConvertFatal(p) ==
  /\ Storing(p) # {}
  /\ \/ pc[p] = "ToCanonical" /\ ReadsMeta(local[p][1].source, tool)
     \/ pc[p] = "Store"
  /\ ret' = [ret EXCEPT ![p] =
               <<ConvertReturned(p, call[p][1], local[p][1].given, <<>>, <<>>,
                                 TRUE, TRUE)>>]
  /\ pc' = [q \in Procs |-> "exited"]
  /\ UNCHANGED <<adapters, writing, mu, call, local, ops, lastOp, seen, tool, outcome>>

NextShared ==
  \E p \in Procs :
    \/ \E fromFormat \in SharedFrom, toFormat \in SharedTo :
         ConvertCall(p, fromFormat, toFormat)
    \/ ConvertLift(p)
    \/ ConvertProject(p)
    \/ ConvertStore(p)
    \/ ConvertFatal(p)

SpecShared == InitShared /\ [][NextShared]_vars

\* C28: concurrent Convert calls on one registry that are given the same
\* tool value do not interfere: no call stores into memory that another
\* call reads, the runtime stops none of them, and each call returns the
\* result and the error that Convert returns for the tool it was given when
\* it runs alone.
C28_CallsDoNotInterfere ==
  \A p \in Procs :
    ret[p] # <<>> =>
      LET r == ret[p][1]
          alone == Convert(adapters, r.given, r.name, r.toFormat)
      IN  /\ ~r.racy
          /\ ~r.fatal
          /\ r.result = alone.result
          /\ r.err = alone.err

=============================================================================
